------------------------------- MODULE FlowProofs -------------------------------
(***************************************************************************)
(* What holds of intake, and of the story of an invoice across the         *)
(* services, for every value of the constants.                             *)
(*                                                                         *)
(* Part one is about intake alone, whatever the other services make of it: *)
(* type correctness, the refinement of Lifecycle, what a status goes back  *)
(* to, and what the dashboard says.  All but the first ask that            *)
(* resubmissions of one invoice do not overlap: of two that both asked,    *)
(* the later writes over what the events made of the earlier.              *)
(*                                                                         *)
(* Part two is about Flow, as long as no service answers again (see        *)
(* AnsweredOnce): each service does in the story what its own module says, *)
(* money moves only for the submission that is shown, and at rest the      *)
(* services tell one story.  It rests on the invariants of part one.       *)
(***************************************************************************)
EXTENDS Flow, FiniteSetTheorems, Sums, TLAPS

--------------------------------------------------------------------------------
(* Type correctness.  It needs that events are worded as their topics say,  *)
(* and that a worker on its way holds what it works on.                     *)

Worded(m) ==
  /\ m \in Message
  /\ m.topic = "decision-made" => m.outcome \in Routes
  /\ m.topic = "approval-resolved" => m.outcome \in Verdicts
  /\ m.topic \in {"payment-completed", "payment-failed"} => m.outcome = None

Holding ==
  /\ \A m \in sent : Worded(m)
  /\ \A c \in Clients :
       pc[c] \in {"idle"} \cup ClientPcs /\ (pc[c] # "idle" => draft[c] # None)
  /\ \A h \in Handlers :
       pc[h] \in {"idle"} \cup HandlerPcs /\ (pc[h] # "idle" => event[h] \in sent)
  /\ \A h \in Handlers :
       pc[h] \in {"update", "bump"} => event[h].topic # "invoice-submitted"

TypeInv == TypeOK /\ Holding

\* A request on its way holds a record of an invoice.
LEMMA DraftTyped ==
  ASSUME TypeInv, NEW c \in Clients, pc[c] # "idle"
  PROVE  /\ draft[c] \in Draft
         /\ Own(c) \in Invoices
         /\ draft[c].record \in InvoiceRecord
         /\ draft[c].record.version \in Versions
BY DEF TypeInv, TypeOK, Holding, Own, Draft, InvoiceRecord

\* A handler on its way holds an event that was published.
LEMMA EventTyped ==
  ASSUME TypeInv, NEW h \in Handlers, pc[h] # "idle"
  PROVE  event[h] \in sent /\ Worded(event[h]) /\ event[h].invoice \in Invoices
BY DEF TypeInv, Holding, Worded, Message

\* The faults are counted up to their bound.
LEMMA FaultCounted ==
  ASSUME TypeInv, NEW kind, Fault(kind)
  PROVE  /\ faults' \in [AllFaultKinds -> 0 .. MaxFaults]
         /\ kind \in AllFaultKinds
         /\ faults[kind] \in Nat /\ faults'[kind] = faults[kind] + 1
         /\ faults[kind] + 1 \in 0 .. MaxFaults
<1>1. /\ kind \in AllFaultKinds /\ faults' = [faults EXCEPT ![kind] = @ + 1]
      /\ faults \in [AllFaultKinds -> 0 .. MaxFaults]
  BY IntakeAssumption DEF Fault, TypeInv, TypeOK
<1>2. SumFunctionOnSet(faults, AllFaultKinds) < MaxFaults
  BY SumOfValues DEF Fault
<1>3. IsFiniteSet(AllFaultKinds)
  <2>1. IsFiniteSet({"call"} \cup ({"lost"} \cup ({"reorder"} \cup ({"crash"} \cup {"again"}))))
    BY FS_Singleton, FS_Union
  <2>2. AllFaultKinds = {"call"} \cup ({"lost"} \cup ({"reorder"} \cup ({"crash"} \cup {"again"})))
    BY DEF AllFaultKinds
  <2> QED BY <2>1, <2>2
<1>4. \A k \in AllFaultKinds : faults[k] \in Nat
  BY <1>1
<1>5. faults[kind] <= SumFunctionOnSet(faults, AllFaultKinds)
  BY <1>1, <1>3, <1>4, SumBoundsEach
<1>6. SumFunctionOnSet(faults, AllFaultKinds) \in Int /\ MaxFaults \in Nat
  BY <1>3, <1>4, SumTyped, IntakeAssumption
<1>7. faults[kind] + 1 \in 0 .. MaxFaults
  BY <1>1, <1>2, <1>4, <1>5, <1>6
<1> QED BY <1>1, <1>4, <1>7

\* An event is as worded when it is said again.
LEMMA AgainWorded ==
  ASSUME TypeInv, NEW n, Worded(n), n.copy = 0, Fault("again")
  PROVE  /\ Worded(Again(n))
         /\ Again(n).topic = n.topic /\ Again(n).invoice = n.invoice
         /\ Again(n).version = n.version /\ Again(n).outcome = n.outcome
BY FaultCounted DEF Again, Worded, Message

\* Another service publishes something on what m says.
Replies(m) == \E again \in BOOLEAN : Decide(m, again) \/ Review(m, again) \/ Pay(m, again)

\* What it publishes is worded.
LEMMA RepliesWorded ==
  ASSUME TypeInv, NEW m \in sent, Replies(m)
  PROVE  /\ \E n : Worded(n) /\ Broadcast(n)
         /\ faults' \in [AllFaultKinds -> 0 .. MaxFaults]
<1>1. PICK again \in BOOLEAN : Decide(m, again) \/ Review(m, again) \/ Pay(m, again)
  BY DEF Replies
<1>2. m.invoice \in Invoices /\ m.version \in Versions /\ 0 \in 0 .. MaxFaults
  BY IntakeAssumption DEF TypeInv, Holding, Worded, Message
<1>3. ASSUME NEW n, Worded(n), n.copy = 0, Publishes(again, n)
      PROVE  /\ \E k : Worded(k) /\ Broadcast(k)
             /\ faults' \in [AllFaultKinds -> 0 .. MaxFaults]
  BY <1>3, AgainWorded, FaultCounted DEF Publishes, TypeInv, TypeOK
<1>4. CASE Decide(m, again)
  <2>1. PICK o \in Routes : Publishes(again, Msg("decision-made", m.invoice, m.version, o))
    BY <1>4 DEF Decide
  <2>2. /\ Worded(Msg("decision-made", m.invoice, m.version, o))
        /\ Msg("decision-made", m.invoice, m.version, o).copy = 0
    BY <1>2 DEF Worded, Msg, Message
  <2> QED BY <1>3, <2>1, <2>2
<1>5. CASE Review(m, again)
  <2>1. PICK o \in Verdicts : Publishes(again, Msg("approval-resolved", m.invoice, m.version, o))
    BY <1>5 DEF Review
  <2>2. /\ Worded(Msg("approval-resolved", m.invoice, m.version, o))
        /\ Msg("approval-resolved", m.invoice, m.version, o).copy = 0
    BY <1>2 DEF Worded, Msg, Message
  <2> QED BY <1>3, <2>1, <2>2
<1>6. CASE Pay(m, again)
  <2>1. PICK t \in {"payment-completed", "payment-failed"} :
          Publishes(again, Msg(t, m.invoice, m.version, None))
    BY <1>6 DEF Pay
  <2>2. /\ Worded(Msg(t, m.invoice, m.version, None))
        /\ Msg(t, m.invoice, m.version, None).copy = 0
    BY <1>2 DEF Worded, Msg, Message
  <2> QED BY <1>3, <2>1, <2>2
<1> QED BY <1>1, <1>4, <1>5, <1>6

\* What intake publishes is worded.
LEMMA SubmittedWorded ==
  ASSUME NEW i \in Invoices, NEW v \in Versions
  PROVE  Worded(Msg("invoice-submitted", i, v, None))
BY IntakeAssumption DEF Worded, Msg, Message

\* The status an event leads to is one the story may go on with.
LEMMA TargetFollows ==
  ASSUME NEW m, Worded(m), m.topic # "invoice-submitted",
         NEW s, Expected(m, s)
  PROVE  s \in DOMAIN Shown!Follows /\ Target(m) \in Shown!Follows[s]
<1>1. CASE m.topic = "decision-made"
  <2>1. s = "evaluating" /\ m.outcome \in Routes
    BY <1>1 DEF Expected, Worded
  <2>2. Target(m) \in {"approved", "rejected", "duplicate", "pending_approval"}
    BY <1>1, <2>1 DEF Target, Routes
  <2> QED BY <2>1, <2>2 DEF Shown!Follows
<1>2. CASE m.topic = "approval-resolved"
  <2>1. s = "pending_approval" /\ m.outcome \in Verdicts
    BY <1>2 DEF Expected, Worded
  <2>2. Target(m) \in {"approved", "rejected", "needs_info"}
    BY <1>2, <2>1 DEF Target, Verdicts
  <2> QED BY <2>1, <2>2 DEF Shown!Follows
<1>3. CASE m.topic \in {"payment-completed", "payment-failed"}
  <2>1. s = "approved"
    BY <1>3 DEF Expected
  <2>2. m.outcome \notin Routes \cup Verdicts
    BY <1>3, IntakeAssumption DEF Worded
  <2>3. Target(m) \in {"paid", "payment_failed"}
    BY <1>3, <2>2 DEF Target, Routes, Verdicts
  <2> QED BY <2>1, <2>3 DEF Shown!Follows
<1> QED BY <1>1, <1>2, <1>3 DEF Worded, Message

\* An event that applies leaves a record of the same version.
LEMMA AppliedTyped ==
  ASSUME NEW m, Worded(m), m.topic # "invoice-submitted",
         NEW r \in InvoiceRecord, Expected(m, r.status)
  PROVE  /\ Applied(m, r) \in InvoiceRecord
         /\ Applied(m, r).version = r.version
         /\ Applied(m, r).status = Target(m)
<1>1. DecidedBy(m, r) \in {"router", "approver", None}
  BY DEF DecidedBy, InvoiceRecord
<1>2. Target(m) \in InvoiceStatus
  <2>1. r.status \in {"submitted", "evaluating", "pending_approval", "approved"}
    BY TargetFollows DEF Shown!Follows
  <2> QED BY <2>1, TargetFollows DEF Shown!Follows, InvoiceStatus
<1> QED BY <1>1, <1>2 DEF Applied, InvoiceRecord

\* The counter an event moves is on the dashboard.
LEMMA CounterTyped ==
  ASSUME NEW m, Worded(m), m.topic # "invoice-submitted", NEW r
  PROVE  Counter(m, r) \in Counters
<1>1. CASE m.topic = "decision-made"
  BY <1>1 DEF Counter, Counters, Worded
<1>2. CASE m.topic = "approval-resolved"
  BY <1>2 DEF Counter, Counters, Worded
<1>3. CASE m.topic \in {"payment-completed", "payment-failed"}
  BY <1>3 DEF Counter, Counters
<1> QED BY <1>1, <1>2, <1>3 DEF Worded, Message

\* What a request answers leaves the locals typed.
LEMMA AnswerTyped ==
  ASSUME TypeInv, NEW c \in Clients, pc[c] # "idle", NEW ok \in BOOLEAN, Answer(c, ok)
  PROVE  /\ pc' = [pc EXCEPT ![c] = "idle"]
         /\ draft' \in [Clients -> Draft \cup {None}]
         /\ \A d \in Clients \ {c} : draft'[d] = draft[d]
         /\ accepted' \subseteq Invoices \X Versions
         /\ UNCHANGED <<event, updated>>
BY DraftTyped DEF Answer, Goto, TypeInv, TypeOK

\* Every step preserves the type invariant.
LEMMA TypeStep == TypeInv /\ [Next]_vars => TypeInv'
<1> SUFFICES ASSUME TypeInv, [Next]_vars PROVE TypeInv'
  OBVIOUS
<1> USE DEF TypeInv
<1>c. \A c \in Clients : c \in Workers /\ c \notin Handlers
  BY IntakeAssumption DEF Workers
<1>h. \A h \in Handlers : h \in Workers /\ h \notin Clients
  BY IntakeAssumption DEF Workers
<1>f. \A kind : Fault(kind) => faults' \in [AllFaultKinds -> 0 .. MaxFaults]
  BY FaultCounted
\* A request that ends.
<1>a. ASSUME NEW c \in Clients, pc[c] # "idle", NEW ok \in BOOLEAN, Answer(c, ok),
             record' \in [Invoices -> InvoiceRecord \cup {None}],
             counters' \in [Counters -> Nat],
             UNCHANGED <<processed, versions>>,
             \/ UNCHANGED bus
             \/ \E m : Worded(m) /\ Broadcast(m),
             faults' \in [AllFaultKinds -> 0 .. MaxFaults]
      PROVE  TypeInv'
  <2>1. Holding'
    BY <1>a, <1>c, <1>h, AnswerTyped DEF Holding, TypeOK, bus, Broadcast
  <2>2. TypeOK'
    BY <1>a, <1>c, AnswerTyped DEF TypeOK, bus, Broadcast, Worded
  <2> QED BY <2>1, <2>2
\* A request that goes on.
<1>g. ASSUME NEW c \in Clients, NEW next \in ClientPcs, Goto(c, next),
             record' \in [Invoices -> InvoiceRecord \cup {None}],
             draft' \in [Clients -> Draft \cup {None}],
             draft'[c] # None,
             \A d \in Clients \ {c} : draft'[d] = draft[d],
             versions' \in [Invoices -> 0 .. MaxVersions],
             UNCHANGED <<counters, processed, event, updated, accepted>>,
             \/ UNCHANGED bus
             \/ \E m : Worded(m) /\ Broadcast(m),
             faults' \in [AllFaultKinds -> 0 .. MaxFaults]
      PROVE  TypeInv'
  <2>1. Holding'
    BY <1>g, <1>c, <1>h DEF Holding, TypeOK, bus, Broadcast, Goto
  <2>2. TypeOK'
    BY <1>g, <1>c DEF TypeOK, bus, Broadcast, Worded, Goto
  <2> QED BY <2>1, <2>2
\* A handler that goes on.
<1>n. ASSUME NEW h \in Handlers, NEW next \in HandlerPcs, Goto(h, next),
             event'[h] \in sent,
             next \in {"update", "bump"} => event'[h].topic # "invoice-submitted",
             \A g \in Handlers \ {h} : event'[g] = event[g],
             event' \in [Handlers -> Message \cup {None}],
             updated' \in [Handlers -> InvoiceRecord \cup {None}],
             record' \in [Invoices -> InvoiceRecord \cup {None}],
             counters' \in [Counters -> Nat],
             processed' \subseteq Message,
             UNCHANGED <<bus, draft, accepted, versions>>,
             faults' \in [AllFaultKinds -> 0 .. MaxFaults]
      PROVE  TypeInv'
  <2>1. Holding'
    BY <1>n, <1>c, <1>h DEF Holding, TypeOK, bus, Goto
  <2>2. TypeOK'
    BY <1>n, <1>h DEF TypeOK, bus, Goto
  <2> QED BY <2>1, <2>2
\* A handler that leaves.
<1>l. ASSUME NEW h \in Handlers, pc[h] # "idle", Leave(h),
             processed' \subseteq Message,
             unacked' \subseteq unacked,
             UNCHANGED <<record, counters, sent, accepted, versions>>,
             faults' \in [AllFaultKinds -> 0 .. MaxFaults]
      PROVE  TypeInv'
  <2>1. Holding'
    BY <1>l, <1>c, <1>h DEF Holding, TypeOK, Leave, Goto
  <2>2. TypeOK'
    BY <1>l, <1>h DEF TypeOK, Leave, Goto
  <2> QED BY <2>1, <2>2
<1>1. ASSUME NEW c \in Clients, NEW i \in Invoices, Submit(c, i) PROVE TypeInv'
  <2> DEFINE new == [status |-> "submitted", version |-> 1, decided_by |-> None]
  <2>1. new \in InvoiceRecord /\ 1 \in 0 .. MaxVersions
    BY IntakeAssumption DEF InvoiceRecord, InvoiceStatus, Versions
  <2>2. [invoice |-> i, record |-> new] \in Draft
    BY <2>1 DEF Draft
  <2>3. /\ Goto(c, "publish")
        /\ record' = [record EXCEPT ![i] = new]
        /\ draft' = [draft EXCEPT ![c] = [invoice |-> i, record |-> new]]
        /\ versions' = [versions EXCEPT ![i] = 1]
        /\ UNCHANGED <<counters, processed, bus, event, updated, accepted, faults>>
    BY <1>1 DEF Submit, SaveRecord, Hold
  <2> HIDE DEF new
  <2>4. /\ record' \in [Invoices -> InvoiceRecord \cup {None}]
        /\ draft' \in [Clients -> Draft \cup {None}]
        /\ draft'[c] # None
        /\ \A d \in Clients \ {c} : draft'[d] = draft[d]
        /\ versions' \in [Invoices -> 0 .. MaxVersions]
        /\ faults' \in [AllFaultKinds -> 0 .. MaxFaults]
    BY <2>1, <2>2, <2>3, IntakeAssumption DEF TypeOK
  <2> QED BY <1>g, <2>3, <2>4 DEF ClientPcs
<1>2. ASSUME NEW c \in Clients, NEW i \in Invoices, Resubmit(c, i) PROVE TypeInv'
  <2> DEFINE r == Evaluating([record[i] EXCEPT !.version = versions[i] + 1])
  <2>1. versions[i] + 1 \in Versions /\ record[i] \in InvoiceRecord
    BY <1>2, IntakeAssumption
    DEF Resubmit, MayResubmit, HasStatus, TypeOK, Versions
  <2>2. r \in InvoiceRecord
    BY <2>1 DEF Evaluating, InvoiceRecord, InvoiceStatus
  <2>3. [invoice |-> i, record |-> r] \in Draft
    BY <2>2 DEF Draft
  <2>4. /\ Goto(c, "save_resubmitted")
        /\ draft' = [draft EXCEPT ![c] = [invoice |-> i, record |-> r]]
        /\ versions' = [versions EXCEPT ![i] = @ + 1]
        /\ UNCHANGED <<stores, bus, event, updated, accepted, faults>>
    BY <1>2 DEF Resubmit, Hold
  <2> HIDE DEF r
  <2>5. /\ draft' \in [Clients -> Draft \cup {None}]
        /\ draft'[c] # None
        /\ \A d \in Clients \ {c} : draft'[d] = draft[d]
        /\ versions' \in [Invoices -> 0 .. MaxVersions]
    BY <2>1, <2>3, <2>4, IntakeAssumption DEF TypeOK, Versions
  <2> QED BY <1>g, <2>4, <2>5 DEF ClientPcs, stores, TypeOK
<1>3. ASSUME NEW c \in Clients, ClientStep(c) PROVE TypeInv'
  <2>0. pc[c] # "idle"
    BY <1>3 DEF ClientStep, Publish, SaveEvaluating, BumpSubmitted, SaveFailed,
                SaveResubmitted, PublishAgain
  <2>t. /\ draft[c] \in Draft /\ draft[c] # None /\ Own(c) \in Invoices
        /\ draft[c].record \in InvoiceRecord /\ draft[c].record.version \in Versions
    BY <2>0, DraftTyped, IntakeAssumption
  <2>w. Worded(Msg("invoice-submitted", Own(c), draft[c].record.version, None))
    BY <2>t, SubmittedWorded
  <2>s. \A s \in InvoiceStatus : [draft[c].record EXCEPT !.status = s] \in InvoiceRecord
    BY <2>t DEF InvoiceRecord
  <2>1. CASE Publish(c)
    BY <1>g, <2>1, <2>t, <2>w DEF Publish, ClientPcs, stores, locals, TypeOK
  <2>2. CASE SaveEvaluating(c)
    <3>1. Evaluating(draft[c].record) \in InvoiceRecord
      BY <2>s DEF Evaluating, InvoiceStatus
    <3>2. [invoice |-> Own(c), record |-> Evaluating(draft[c].record)] \in Draft
      BY <2>t, <3>1 DEF Draft
    <3>3. /\ record' = [record EXCEPT ![Own(c)] = Evaluating(draft[c].record)]
          /\ draft' = [draft EXCEPT ![c] = [invoice |-> Own(c),
                                           record |-> Evaluating(draft[c].record)]]
          /\ Goto(c, "bump_submitted")
          /\ UNCHANGED <<counters, processed, bus, event, updated, accepted, versions, faults>>
      BY <2>2 DEF SaveEvaluating, SaveRecord, Hold
    <3>4. /\ record' \in [Invoices -> InvoiceRecord \cup {None}]
          /\ draft' \in [Clients -> Draft \cup {None}]
          /\ draft'[c] # None
          /\ \A d \in Clients \ {c} : draft'[d] = draft[d]
      BY <3>1, <3>2, <3>3, IntakeAssumption DEF TypeOK
    <3> QED BY <1>g, <3>3, <3>4 DEF ClientPcs, TypeOK
  <2>3. CASE BumpSubmitted(c)
    <3>1. <<"submitted", "all">> \in Counters
      BY DEF Counters
    <3>2. counters' \in [Counters -> Nat]
      BY <2>3, <3>1 DEF BumpSubmitted, TypeOK
    <3> QED BY <1>a, <2>0, <2>3, <3>2 DEF BumpSubmitted, TypeOK
  <2>4. CASE SaveFailed(c)
    <3>1. [draft[c].record EXCEPT !.status = "submit_failed"] \in InvoiceRecord
      BY <2>s DEF InvoiceStatus
    <3>2. record' \in [Invoices -> InvoiceRecord \cup {None}]
      BY <2>4, <3>1 DEF SaveFailed, SaveRecord, TypeOK
    <3> QED BY <1>a, <2>0, <2>4, <3>2 DEF SaveFailed, TypeOK
  <2>5. CASE SaveResubmitted(c)
    <3>1. record' \in [Invoices -> InvoiceRecord \cup {None}]
      BY <2>5, <2>t DEF SaveResubmitted, SaveRecord, TypeOK
    <3> QED BY <1>g, <2>5, <2>t, <3>1 DEF SaveResubmitted, ClientPcs, locals, TypeOK
  <2>6. CASE PublishAgain(c)
    BY <1>a, <2>0, <2>6, <2>w DEF PublishAgain, stores, TypeOK
  <2> QED BY <1>3, <2>1, <2>2, <2>3, <2>4, <2>5, <2>6 DEF ClientStep
<1>4. ASSUME NEW h \in Handlers, NEW m \in unacked, Deliver(h, m) PROVE TypeInv'
  <2>1. m \in sent /\ m \in Message
    BY DEF TypeOK
  <2>2. faults' \in [AllFaultKinds -> 0 .. MaxFaults]
    BY <1>4, <1>f DEF Deliver, TypeOK
  <2>3. /\ Goto(h, "first_time") /\ event' = [event EXCEPT ![h] = m]
        /\ UNCHANGED <<stores, bus, draft, updated, accepted, versions>>
    BY <1>4 DEF Deliver
  <2>4. /\ event'[h] = m /\ event' \in [Handlers -> Message \cup {None}]
        /\ \A g \in Handlers \ {h} : event'[g] = event[g]
    BY <2>1, <2>3 DEF TypeOK
  <2> QED BY <1>n, <2>1, <2>2, <2>3, <2>4 DEF HandlerPcs, stores, TypeOK
<1>5. ASSUME NEW h \in Handlers, HandlerStep(h) PROVE TypeInv'
  <2>0. pc[h] # "idle"
    BY <1>5 DEF HandlerStep, FirstTime, Update, Bump, Ack
  <2>e. /\ event[h] \in sent /\ Worded(event[h]) /\ event[h] \in Message
        /\ event[h].invoice \in Invoices
        /\ pc[h] \in {"update", "bump"} => event[h].topic # "invoice-submitted"
    BY <2>0, EventTyped DEF Worded, Holding
  <2>1. CASE FirstTime(h)
    <3>1. PICK next \in {"ack", "update"} :
            Goto(h, next) /\ (next = "update" => event[h].topic # "invoice-submitted")
      BY <2>1 DEF FirstTime
    <3>2. processed' \subseteq Message
      BY <2>1, <2>e DEF FirstTime, TypeOK
    <3> QED BY <1>n, <2>1, <2>e, <3>1, <3>2 DEF FirstTime, HandlerPcs, locals, TypeOK
  <2>2. CASE Update(h)
    <3> DEFINE m == event[h]
               applies == record[m.invoice] # None /\ Expected(m, record[m.invoice].status)
    <3>1. CASE applies
      <4>1. record[m.invoice] \in InvoiceRecord
        BY <2>e, <3>1 DEF TypeOK
      <4>2. Applied(m, record[m.invoice]) \in InvoiceRecord
        BY <2>2, <2>e, <3>1, <4>1, AppliedTyped DEF Update
      <4>3. /\ record' = [record EXCEPT ![m.invoice] = Applied(m, @)]
            /\ updated' = [updated EXCEPT ![h] = record'[m.invoice]]
            /\ Goto(h, "bump")
            /\ UNCHANGED <<counters, processed, bus, draft, event, accepted, versions, faults>>
        BY <2>2, <3>1 DEF Update
      <4>4. /\ record' \in [Invoices -> InvoiceRecord \cup {None}]
            /\ record'[m.invoice] \in InvoiceRecord
        BY <2>e, <4>2, <4>3 DEF TypeOK
      <4>5. updated' \in [Handlers -> InvoiceRecord \cup {None}]
        BY <4>3, <4>4 DEF TypeOK
      <4> QED BY <1>n, <2>2, <2>e, <4>3, <4>4, <4>5 DEF Update, HandlerPcs, TypeOK
    <3>2. CASE ~applies
      BY <1>n, <2>2, <2>e, <3>2 DEF Update, HandlerPcs, TypeOK
    <3> QED BY <3>1, <3>2
  <2>3. CASE Bump(h)
    <3>1. Counter(event[h], updated[h]) \in Counters
      BY <2>3, <2>e, CounterTyped DEF Bump
    <3>2. counters' \in [Counters -> Nat]
      BY <2>3, <3>1 DEF Bump, TypeOK
    <3> QED BY <1>n, <2>3, <2>e, <3>2 DEF Bump, HandlerPcs, locals, TypeOK
  <2>4. CASE Ack(h)
    BY <1>l, <2>0, <2>4 DEF Ack, stores, TypeOK
  <2> QED BY <1>5, <2>1, <2>2, <2>3, <2>4 DEF HandlerStep
<1>6. CASE Downstream(FALSE) \/ Downstream(TRUE)
  <2>1. /\ \E m \in sent : Replies(m)
        /\ UNCHANGED <<stores, pc, locals, accepted, versions>>
    BY <1>6 DEF Downstream, Replies
  <2>2. (\E n : Worded(n) /\ Broadcast(n)) /\ faults' \in [AllFaultKinds -> 0 .. MaxFaults]
    BY <2>1, RepliesWorded
  <2>3. sent' \subseteq Message /\ unacked' \subseteq sent' /\ sent \subseteq sent'
        /\ \A n \in sent' : Worded(n)
    BY <2>2 DEF TypeOK, Broadcast, Worded, Holding
  <2> QED BY <2>1, <2>2, <2>3 DEF TypeOK, Holding, stores, locals
<1>7. ASSUME NEW c \in Clients, RequestFails(c) \/ PublishFails(c) \/ PublishAgainFails(c)
      PROVE  TypeInv'
  <2>0. pc[c] # "idle"
    BY <1>7 DEF RequestFails, PublishFails, PublishAgainFails
  <2>t. /\ draft[c] \in Draft /\ draft[c] # None /\ Own(c) \in Invoices
        /\ draft[c].record.version \in Versions
    BY <2>0, DraftTyped, IntakeAssumption
  <2>w. Worded(Msg("invoice-submitted", Own(c), draft[c].record.version, None))
    BY <2>t, SubmittedWorded
  <2>m. ASSUME Ambiguous(c)
        PROVE  /\ UNCHANGED bus \/ \E m : Worded(m) /\ Broadcast(m)
               /\ faults' \in [AllFaultKinds -> 0 .. MaxFaults]
    BY <1>f, <2>m, <2>w DEF Ambiguous
  <2>1. CASE RequestFails(c)
    BY <1>a, <1>f, <2>0, <2>1 DEF RequestFails, stores, TypeOK
  <2>2. CASE PublishFails(c)
    BY <1>g, <2>2, <2>m, <2>t DEF PublishFails, ClientPcs, stores, locals, TypeOK
  <2>3. CASE PublishAgainFails(c)
    BY <1>a, <2>0, <2>3, <2>m DEF PublishAgainFails, stores, TypeOK
  <2> QED BY <1>7, <2>1, <2>2, <2>3
<1>8. ASSUME NEW h \in Handlers, Raise(h) PROVE TypeInv'
  <2>1. pc[h] # "idle" /\ event[h] \in Message
    BY <1>8, EventTyped DEF Raise, Worded
  <2>2. processed' \subseteq Message
    BY <1>8, <2>1 DEF Raise, TypeOK
  <2> QED BY <1>8, <1>f, <1>l, <2>1, <2>2 DEF Raise, bus
<1>9. CASE Crash
  BY <1>9, <1>c, <1>f, <1>h DEF Crash, TypeOK, Holding, stores, bus
<1>10. CASE UNCHANGED vars
  BY <1>10 DEF vars, stores, bus, locals, TypeOK, Holding
<1> QED BY <1>1, <1>2, <1>3, <1>4, <1>5, <1>6, <1>7, <1>8, <1>9, <1>10 DEF Next

\* The types are kept from the start, whatever is delivered, fails or crashes.
LEMMA TypeInvariant == Spec => []TypeInv
<1>1. Init => TypeInv
  BY IntakeAssumption DEF Init, TypeInv, TypeOK, Holding, Workers
<1> QED BY <1>1, TypeStep, PTL DEF Spec

\* The stores, the broker and the locals of every worker keep their types.
THEOREM TypeCorrect == Spec => []TypeOK
<1>1. TypeInv => TypeOK
  BY DEF TypeInv
<1> QED BY <1>1, TypeInvariant, PTL

--------------------------------------------------------------------------------
(* The refinement.  What a request writes blindly is safe only because of    *)
(* what cannot change under it: no event applies to a record that is         *)
(* submitted or sent back, and no other resubmission is about to write.      *)

\* Of two resubmissions of one invoice, both asked and neither wrote, in no state.
ResubmissionsDoNotOverlap ==
  \A c, d \in Clients : (/\ pc[c] = "save_resubmitted" /\ pc[d] = "save_resubmitted"
                         /\ Own(c) = Own(d)) => c = d

PostPcs == {"publish", "save_evaluating", "save_failed"}

\* What a request that is going to write relies on.
Relies(c) ==
  /\ pc[c] \in PostPcs =>
       record[Own(c)] = draft[c].record /\ draft[c].record.status = "submitted"
  /\ pc[c] = "save_resubmitted" =>
       /\ HasStatus(Own(c), "needs_info")
       /\ draft[c].record.status = "evaluating"
       /\ record[Own(c)].version < draft[c].record.version
       /\ draft[c].record.version <= versions[Own(c)]

StoryInv ==
  /\ \A i \in Invoices : versions[i] = 0 => record[i] = None
  /\ \A i \in Invoices : record[i] # None => record[i].version <= versions[i]
  /\ \A c \in Clients : Relies(c)
  /\ \A c, d \in Clients : pc[c] \in PostPcs /\ pc[d] \in PostPcs /\ Own(c) = Own(d) => c = d

\* One request at most is going to write an invoice.
LEMMA SoleWriter ==
  ASSUME StoryInv, ResubmissionsDoNotOverlap, NEW c \in Clients, NEW d \in Clients,
         pc[c] \in PostPcs \cup {"save_resubmitted"}, pc[d] \in PostPcs \cup {"save_resubmitted"},
         Own(c) = Own(d)
  PROVE  c = d
BY DEF StoryInv, Relies, ResubmissionsDoNotOverlap, HasStatus

\* Writing the record of an invoice writes what is shown of it.
LEMMA ShownWritten ==
  ASSUME TypeInv, NEW i \in Invoices, NEW r \in InvoiceRecord,
         record' = [record EXCEPT ![i] = r]
  PROVE  /\ StatusShown' = [StatusShown EXCEPT ![i] = r.status]
         /\ VersionShown' = [VersionShown EXCEPT ![i] = r.version]
<1>1. record \in [Invoices -> InvoiceRecord \cup {None}]
  BY DEF TypeInv, TypeOK
<1>2. r # None
  BY IntakeAssumption
<1>3. /\ record'[i] = r
      /\ \A j \in Invoices \ {i} : record'[j] = record[j]
  BY <1>1
<1>4. \A j \in Invoices :
        /\ StatusShown'[j] = IF j = i THEN r.status ELSE StatusShown[j]
        /\ VersionShown'[j] = IF j = i THEN r.version ELSE VersionShown[j]
  BY <1>2, <1>3 DEF StatusShown, VersionShown
<1>5. /\ StatusShown' = [j \in Invoices |-> StatusShown'[j]]
      /\ VersionShown' = [j \in Invoices |-> VersionShown'[j]]
      /\ StatusShown = [j \in Invoices |-> StatusShown[j]]
      /\ VersionShown = [j \in Invoices |-> VersionShown[j]]
  BY DEF StatusShown, VersionShown
<1> QED BY <1>4, <1>5

\* A write that keeps the version and takes the status on is a step of the story.
LEMMA WriteAdvances ==
  ASSUME TypeInv, NEW i \in Invoices, NEW r \in InvoiceRecord,
         record' = [record EXCEPT ![i] = r],
         record[i] # None, r.version = record[i].version,
         record[i].status \in DOMAIN Shown!Follows,
         r.status \in Shown!Follows[record[i].status]
  PROVE  Shown!Next
<1>1. /\ StatusShown' = [StatusShown EXCEPT ![i] = r.status]
      /\ VersionShown' = [VersionShown EXCEPT ![i] = r.version]
  BY ShownWritten
<1>2. StatusShown[i] = record[i].status /\ VersionShown[i] = record[i].version
  BY DEF StatusShown, VersionShown
<1>3. VersionShown' = VersionShown
  BY <1>1, <1>2 DEF VersionShown
<1> QED BY <1>1, <1>2, <1>3 DEF Shown!Next, Shown!Advance

--------------------------------------------------------------------------------
(* What each action of a request does.                                      *)

\* The other requests stay where they are, with what they hold.
OtherRequests(c) ==
  \A d \in Clients \ {c} : pc'[d] = pc[d] /\ draft'[d] = draft[d] /\ Own(d)' = Own(d)

\* The request goes on to `next`, for the same invoice and with record r in its hands.
Goes(c, next, r) ==
  /\ OtherRequests(c)
  /\ pc'[c] = next
  /\ Own(c)' = Own(c)
  /\ draft'[c].record = r

\* The request ends.
Ends(c) == OtherRequests(c) /\ pc'[c] = "idle"

Writes(i, r) ==
  /\ record' = [record EXCEPT ![i] = r]
  /\ record'[i] = r
  /\ \A j \in Invoices \ {i} : record'[j] = record[j]

\* A request that goes on to its next call with a record of its own holds just that.
LEMMA RequestHolds ==
  ASSUME TypeInv, NEW c \in Clients, NEW next, NEW i \in Invoices, NEW r,
         Goto(c, next), Hold(c, i, r)
  PROVE  /\ OtherRequests(c) /\ pc'[c] = next /\ Own(c)' = i /\ draft'[c].record = r
BY DEF TypeInv, TypeOK, Workers, Goto, Hold, OtherRequests, Own

\* A request that goes on to its next call keeps what it holds.
LEMMA RequestGoes ==
  ASSUME TypeInv, NEW c \in Clients, NEW next, Goto(c, next), UNCHANGED draft
  PROVE  Goes(c, next, draft[c].record)
BY DEF TypeInv, TypeOK, Workers, Goto, Goes, OtherRequests, Own

\* A request that was answered leaves its worker free.
LEMMA RequestEnds ==
  ASSUME TypeInv, NEW c \in Clients, NEW ok, Answer(c, ok)
  PROVE  Ends(c)
BY DEF TypeInv, TypeOK, Workers, Goto, Answer, Ends, OtherRequests, Own

\* A save writes the record of one invoice.
LEMMA RecordWritten ==
  ASSUME TypeInv, NEW i \in Invoices, NEW r, SaveRecord(i, r)
  PROVE  Writes(i, r)
BY DEF TypeInv, TypeOK, SaveRecord, Writes

\* What the requests do, one by one.
LEMMA SubmitDoes ==
  ASSUME TypeInv, StoryInv, NEW c \in Clients, NEW i \in Invoices, Submit(c, i)
  PROVE  \E r \in InvoiceRecord :
           /\ r.status = "submitted" /\ r.version = 1 /\ r.decided_by = None
           /\ record[i] = None
           /\ OtherRequests(c) /\ pc'[c] = "publish" /\ Own(c)' = i /\ draft'[c].record = r
           /\ Writes(i, r)
           /\ versions'[i] = 1 /\ \A j \in Invoices \ {i} : versions'[j] = versions[j]
<1> DEFINE r == [status |-> "submitted", version |-> 1, decided_by |-> None]
<1>1. r \in InvoiceRecord /\ r.status = "submitted" /\ r.version = 1 /\ r.decided_by = None
  BY IntakeAssumption DEF InvoiceRecord, InvoiceStatus, Versions
<1>2. /\ SaveRecord(i, r) /\ Hold(c, i, r) /\ Goto(c, "publish")
      /\ versions[i] = 0 /\ versions' = [versions EXCEPT ![i] = 1]
  BY DEF Submit
<1> HIDE DEF r
<1>3. record[i] = None
  BY <1>2 DEF StoryInv
<1>4. versions'[i] = 1 /\ \A j \in Invoices \ {i} : versions'[j] = versions[j]
  BY <1>2 DEF TypeInv, TypeOK
<1> QED BY <1>1, <1>2, <1>3, <1>4, RequestHolds, RecordWritten

\* A PUT takes a version of its own for an invoice that was sent back.
LEMMA ResubmitDoes ==
  ASSUME TypeInv, NEW c \in Clients, NEW i \in Invoices, Resubmit(c, i)
  PROVE  \E r \in InvoiceRecord :
           /\ r.status = "evaluating" /\ r.version = versions[i] + 1
           /\ HasStatus(i, "needs_info") /\ UNCHANGED <<record, sent>>
           /\ OtherRequests(c) /\ pc'[c] = "save_resubmitted" /\ Own(c)' = i
           /\ draft'[c].record = r
           /\ versions'[i] = versions[i] + 1 /\ versions[i] \in Nat
           /\ \A j \in Invoices \ {i} : versions'[j] = versions[j]
<1> DEFINE r == Evaluating([record[i] EXCEPT !.version = versions[i] + 1])
<1>1. /\ HasStatus(i, "needs_info") /\ UNCHANGED <<record, sent>>
      /\ Hold(c, i, r) /\ Goto(c, "save_resubmitted")
      /\ versions' = [versions EXCEPT ![i] = @ + 1] /\ versions[i] \in 1 .. MaxVersions - 1
  BY DEF Resubmit, MayResubmit, stores, bus
<1>2. record[i] \in InvoiceRecord /\ versions[i] + 1 \in Versions /\ versions[i] \in Nat
  BY <1>1, IntakeAssumption DEF HasStatus, TypeInv, TypeOK, Versions
<1>3. r \in InvoiceRecord /\ r.status = "evaluating" /\ r.version = versions[i] + 1
  BY <1>2 DEF Evaluating, InvoiceRecord, InvoiceStatus
<1> HIDE DEF r
<1>4. versions'[i] = versions[i] + 1 /\ \A j \in Invoices \ {i} : versions'[j] = versions[j]
  BY <1>1 DEF TypeInv, TypeOK
<1> QED BY <1>1, <1>2, <1>3, <1>4, RequestHolds

\* A POST whose event is out writes evaluating over the record it holds.
LEMMA SaveEvaluatingDoes ==
  ASSUME TypeInv, NEW c \in Clients, SaveEvaluating(c)
  PROVE  \E r \in InvoiceRecord :
           /\ pc[c] = "save_evaluating" /\ Own(c) \in Invoices
           /\ r.status = "evaluating" /\ r.version = draft[c].record.version
           /\ Goes(c, "bump_submitted", r) /\ Writes(Own(c), r)
           /\ UNCHANGED <<versions, sent>>
<1> DEFINE r == Evaluating(draft[c].record)
<1>1. /\ SaveRecord(Own(c), r) /\ Hold(c, Own(c), r) /\ Goto(c, "bump_submitted")
      /\ pc[c] = "save_evaluating" /\ UNCHANGED <<versions, sent>>
  BY DEF SaveEvaluating, bus
<1>2. Own(c) \in Invoices /\ draft[c].record \in InvoiceRecord
  BY <1>1, DraftTyped
<1>3. r \in InvoiceRecord /\ r.status = "evaluating" /\ r.version = draft[c].record.version
  BY <1>2 DEF Evaluating, InvoiceRecord, InvoiceStatus
<1> HIDE DEF r
<1> QED BY <1>1, <1>2, <1>3, RequestHolds, RecordWritten DEF Goes

\* A POST whose event failed writes submit_failed and is answered.
LEMMA SaveFailedDoes ==
  ASSUME TypeInv, NEW c \in Clients, SaveFailed(c)
  PROVE  \E r \in InvoiceRecord :
           /\ pc[c] = "save_failed" /\ Own(c) \in Invoices
           /\ r.status = "submit_failed" /\ r.version = draft[c].record.version
           /\ Ends(c) /\ Writes(Own(c), r)
           /\ UNCHANGED <<versions, sent>>
<1> DEFINE r == [draft[c].record EXCEPT !.status = "submit_failed"]
<1>1. /\ SaveRecord(Own(c), r) /\ Answer(c, FALSE)
      /\ pc[c] = "save_failed" /\ UNCHANGED <<versions, sent>>
  BY DEF SaveFailed, bus
<1>2. Own(c) \in Invoices /\ draft[c].record \in InvoiceRecord
  BY <1>1, DraftTyped
<1>3. r \in InvoiceRecord /\ r.status = "submit_failed" /\ r.version = draft[c].record.version
  BY <1>2 DEF InvoiceRecord, InvoiceStatus
<1> HIDE DEF r
<1> QED BY <1>1, <1>2, <1>3, RequestEnds, RecordWritten

\* A PUT writes the record it holds before it publishes.
LEMMA SaveResubmittedDoes ==
  ASSUME TypeInv, NEW c \in Clients, SaveResubmitted(c)
  PROVE  /\ pc[c] = "save_resubmitted" /\ Own(c) \in Invoices
         /\ draft[c].record \in InvoiceRecord
         /\ Goes(c, "publish_again", draft[c].record) /\ Writes(Own(c), draft[c].record)
         /\ UNCHANGED <<versions, sent>>
<1>1. /\ SaveRecord(Own(c), draft[c].record) /\ Goto(c, "publish_again") /\ UNCHANGED draft
      /\ pc[c] = "save_resubmitted" /\ UNCHANGED <<versions, sent>>
  BY DEF SaveResubmitted, locals, bus
<1>2. Own(c) \in Invoices /\ draft[c].record \in InvoiceRecord
  BY <1>1, DraftTyped
<1> QED BY <1>1, <1>2, RequestGoes, RecordWritten

\* The rest of what a request does writes nothing.
LEMMA PlainRequests ==
  ASSUME TypeInv, NEW c \in Clients,
         \/ Publish(c) \/ BumpSubmitted(c) \/ PublishAgain(c)
         \/ RequestFails(c) \/ PublishFails(c) \/ PublishAgainFails(c)
  PROVE  /\ UNCHANGED <<record, versions>>
         /\ \/ Ends(c)
            \/ /\ pc[c] = "publish" /\ \E next \in {"save_evaluating", "save_failed"} :
                                         Goes(c, next, draft[c].record)
<1>1. CASE Publish(c) \/ PublishFails(c)
  BY <1>1, RequestGoes DEF Publish, PublishFails, stores, locals
<1>2. CASE BumpSubmitted(c) \/ PublishAgain(c) \/ RequestFails(c) \/ PublishAgainFails(c)
  BY <1>2, RequestEnds DEF BumpSubmitted, PublishAgain, RequestFails, PublishAgainFails, stores
<1> QED BY <1>1, <1>2

\* An event that applies is the handler's, and writes what the event says.
LEMMA UpdateDoes ==
  ASSUME TypeInv, NEW h \in Handlers, Update(h)
  PROVE  /\ pc[h] = "update" /\ event[h] \in sent /\ Worded(event[h])
         /\ event[h].topic # "invoice-submitted" /\ event[h].invoice \in Invoices
         /\ \/ UNCHANGED record /\ pc'[h] = "ack"
            \/ LET i == event[h].invoice
                   r == Applied(event[h], record[i])
               IN /\ record[i] # None /\ Expected(event[h], record[i].status)
                  /\ record[i] \in InvoiceRecord
                  /\ r \in InvoiceRecord /\ r.version = record[i].version
                  /\ r.status = Target(event[h]) /\ r.decided_by = DecidedBy(event[h], record[i])
                  /\ Writes(i, r) /\ pc'[h] = "bump" /\ updated'[h] = r
<1>1. /\ pc[h] = "update" /\ event[h] \in sent /\ Worded(event[h])
      /\ event[h].topic # "invoice-submitted" /\ event[h].invoice \in Invoices
  BY EventTyped DEF Update, TypeInv, Holding
<1> DEFINE m == event[h]
           i == m.invoice
<1>2. CASE record[i] # None /\ Expected(m, record[i].status)
  <2>1. /\ record' = [record EXCEPT ![i] = Applied(m, record[i])]
        /\ updated' = [updated EXCEPT ![h] = record'[i]]
        /\ Goto(h, "bump")
    BY <1>2 DEF Update
  <2> HIDE DEF m, i
  <2>2. record[i] \in InvoiceRecord
    BY <1>1, <1>2 DEF TypeInv, TypeOK, m, i
  <2>3. /\ Applied(m, record[i]) \in InvoiceRecord
        /\ Applied(m, record[i]).version = record[i].version
        /\ Applied(m, record[i]).status = Target(m)
    BY <1>1, <1>2, <2>2, AppliedTyped DEF m
  <2>4. Applied(m, record[i]).decided_by = DecidedBy(m, record[i])
    BY <2>2 DEF Applied, InvoiceRecord
  <2>5. Writes(i, Applied(m, record[i])) /\ updated'[h] = Applied(m, record[i]) /\ pc'[h] = "bump"
    BY <1>1, <2>1 DEF Writes, Goto, TypeInv, TypeOK, Workers, i, m
  <2> QED BY <1>1, <1>2, <2>2, <2>3, <2>4, <2>5 DEF m, i
<1>3. CASE ~(record[i] # None /\ Expected(m, record[i].status))
  <2>1. UNCHANGED record /\ Goto(h, "ack")
    BY <1>3 DEF Update
  <2> QED BY <1>1, <2>1 DEF Goto, TypeInv, TypeOK, Workers
<1> QED BY <1>2, <1>3

--------------------------------------------------------------------------------
(* The story.                                                               *)

\* A handler's step leaves every request where it is.
LEMMA RequestsStay ==
  ASSUME TypeInv, NEW h \in Handlers,
         \/ \E m \in unacked : Deliver(h, m)
         \/ HandlerStep(h) \/ Raise(h)
  PROVE  /\ UNCHANGED <<draft, versions, sent>>
         /\ \A c \in Clients : pc'[c] = pc[c]
         /\ Update(h) \/ UNCHANGED record
<1>1. \A c \in Clients : c # h
  BY IntakeAssumption
<1>2. pc \in [Workers -> {"idle"} \cup ClientPcs \cup HandlerPcs] /\ Clients \subseteq Workers
  BY DEF TypeInv, TypeOK, Workers
<1> QED
  BY <1>1, <1>2
  DEF Deliver, HandlerStep, FirstTime, Update, Bump, Ack, Raise, Leave, Goto, stores, bus, locals

\* What a request relies on stays as long as its invoice is not written.
LEMMA StillRelies ==
  ASSUME TypeInv, TypeInv', NEW d \in Clients, Relies(d),
         pc'[d] = pc[d], draft'[d] = draft[d],
         pc[d] \in PostPcs \cup {"save_resubmitted"} => record'[Own(d)] = record[Own(d)],
         pc[d] = "save_resubmitted" => versions'[Own(d)] >= versions[Own(d)]
  PROVE  Relies(d)'
<1>1. Own(d)' = Own(d)
  BY DEF Own
<1>2. CASE pc[d] \in PostPcs
  BY <1>1, <1>2 DEF Relies, PostPcs
<1>3. CASE pc[d] = "save_resubmitted"
  <2>1. Own(d) \in Invoices /\ draft[d].record \in InvoiceRecord
    BY <1>3, DraftTyped
  <2>2. versions[Own(d)] \in Nat /\ versions'[Own(d)] \in Nat /\ draft[d].record.version \in Nat
    BY <2>1, IntakeAssumption DEF TypeInv, TypeOK, InvoiceRecord, Versions
  <2> QED BY <1>1, <1>3, <2>2 DEF Relies, PostPcs, HasStatus
<1>4. CASE pc[d] \notin PostPcs \cup {"save_resubmitted"}
  BY <1>4 DEF Relies
<1> QED BY <1>2, <1>3, <1>4

\* Every step keeps the story, and shows a step of the life of an invoice or none.
LEMMA StoryStep ==
  ASSUME ResubmissionsDoNotOverlap, TypeInv, StoryInv, [Next]_vars, TypeInv'
  PROVE  StoryInv' /\ [Shown!Next]_(Shown!shown)
<1>s. UNCHANGED record => UNCHANGED Shown!shown
  BY DEF Shown!shown, StatusShown, VersionShown
<1>v. \A i \in Invoices : versions[i] \in Nat /\ versions'[i] \in Nat
  BY IntakeAssumption DEF TypeInv, TypeOK
<1>r. \A i \in Invoices : record[i] # None => record[i] \in InvoiceRecord /\ record[i].version \in Nat
  BY IntakeAssumption DEF TypeInv, TypeOK, InvoiceRecord, Versions
\* A step that writes no record and opens no request.
<1>k. ASSUME UNCHANGED <<record, versions>>,
             \A c \in Clients : \/ pc'[c] \notin PostPcs \cup {"save_resubmitted"}
                                \/ pc'[c] = pc[c] /\ draft'[c] = draft[c]
                                \/ /\ pc[c] = "publish" /\ pc'[c] \in PostPcs
                                   /\ Own(c)' = Own(c)
                                   /\ draft'[c].record = draft[c].record
      PROVE  StoryInv' /\ UNCHANGED Shown!shown
  <2>1. ASSUME NEW c \in Clients PROVE Relies(c)'
    <3>1. CASE pc'[c] = pc[c] /\ draft'[c] = draft[c]
      <4>1. pc[c] = "save_resubmitted" => versions[Own(c)] \in Nat
        BY <1>v, DraftTyped
      <4> QED BY <1>k, <3>1, <4>1, StillRelies DEF StoryInv
    <3>2. CASE pc'[c] \notin PostPcs \cup {"save_resubmitted"}
      BY <3>2 DEF Relies
    <3>3. CASE /\ pc[c] = "publish" /\ pc'[c] \in PostPcs /\ Own(c)' = Own(c)
               /\ draft'[c].record = draft[c].record
      BY <1>k, <3>3 DEF StoryInv, Relies, PostPcs
    <3> QED BY <1>k, <3>1, <3>2, <3>3
  <2>2. ASSUME NEW c \in Clients, pc'[c] \in PostPcs PROVE pc[c] \in PostPcs /\ Own(c)' = Own(c)
    BY <1>k, <2>2 DEF PostPcs, Own
  <2> QED BY <1>k, <1>s, <2>1, <2>2 DEF StoryInv
\* A request writes what it relied on, takes the story on, and is done writing.
<1>w. ASSUME NEW c \in Clients, NEW r \in InvoiceRecord, OtherRequests(c),
             pc[c] \in PostPcs \cup {"save_resubmitted"}, Own(c) \in Invoices,
             pc'[c] \notin PostPcs \cup {"save_resubmitted"},
             Writes(Own(c), r), r.version <= versions[Own(c)], UNCHANGED versions
      PROVE  StoryInv'
  <2>0. record[Own(c)] # None
    <3>1. draft[c].record # None
      BY <1>w, DraftTyped, IntakeAssumption DEF PostPcs
    <3> QED BY <1>w, <3>1 DEF StoryInv, Relies, HasStatus
  <2>1. ASSUME NEW d \in Clients PROVE Relies(d)'
    <3>1. CASE d = c
      BY <1>w, <3>1 DEF Relies
    <3>2. CASE d # c
      <4>1. pc[d] \in PostPcs \cup {"save_resubmitted"} =>
              Own(d) # Own(c) /\ Own(d) \in Invoices /\ versions[Own(d)] \in Nat
        BY <1>v, <1>w, <3>2, SoleWriter, DraftTyped DEF PostPcs
      <4> QED BY <1>w, <3>2, <4>1, StillRelies DEF StoryInv, OtherRequests, Writes
    <3> QED BY <3>1, <3>2
  <2>2. \A i \in Invoices : /\ versions'[i] = 0 => record'[i] = None
                            /\ record'[i] # None => record'[i].version <= versions'[i]
    BY <1>w, <2>0 DEF StoryInv, Writes
  <2>3. \A d \in Clients : pc'[d] \in PostPcs => pc[d] \in PostPcs /\ Own(d)' = Own(d)
    BY <1>w DEF OtherRequests
  <2> QED BY <2>1, <2>2, <2>3 DEF StoryInv
<1>1. ASSUME NEW c \in Clients, NEW i \in Invoices, Submit(c, i)
      PROVE  StoryInv' /\ Shown!Next
  <2>1. PICK r \in InvoiceRecord :
           /\ r.status = "submitted" /\ r.version = 1 /\ r.decided_by = None
           /\ record[i] = None
           /\ OtherRequests(c) /\ pc'[c] = "publish" /\ Own(c)' = i /\ draft'[c].record = r
           /\ Writes(i, r)
           /\ versions'[i] = 1 /\ \A j \in Invoices \ {i} : versions'[j] = versions[j]
    BY <1>1, SubmitDoes
  <2>2. Shown!Next
    <3>1. /\ StatusShown' = [StatusShown EXCEPT ![i] = "submitted"]
          /\ VersionShown' = [VersionShown EXCEPT ![i] = 1]
      <4>1. /\ StatusShown' = [StatusShown EXCEPT ![i] = r.status]
            /\ VersionShown' = [VersionShown EXCEPT ![i] = r.version]
        BY <2>1, ShownWritten DEF Writes
      <4> QED BY <2>1, <4>1
    <3>2. StatusShown[i] = None
      BY <2>1 DEF StatusShown
    <3> QED BY <3>1, <3>2 DEF Shown!Next, Shown!Submit
  \* The others do not rely on an invoice that does not exist.
  <2>3. ASSUME NEW d \in Clients \ {c}, pc[d] \in PostPcs \cup {"save_resubmitted"}
        PROVE  Own(d) \in Invoices \ {i}
    <3>1. Own(d) \in Invoices /\ draft[d].record # None
      BY <2>3, DraftTyped, IntakeAssumption DEF PostPcs
    <3> QED BY <2>1, <2>3, <3>1 DEF StoryInv, Relies, HasStatus
  <2>4. ASSUME NEW d \in Clients PROVE Relies(d)'
    <3>1. CASE d = c
      BY <2>1, <3>1 DEF Relies, Writes
    <3>2. CASE d # c
      BY <1>v, <2>1, <2>3, <3>2, StillRelies DEF StoryInv, OtherRequests, Writes
    <3> QED BY <3>1, <3>2
  <2>5. \A j \in Invoices : /\ versions'[j] = 0 => record'[j] = None
                            /\ record'[j] # None => record'[j].version <= versions'[j]
    BY <2>1 DEF StoryInv, Writes
  <2>6. \A d \in Clients \ {c} : pc'[d] \in PostPcs =>
          pc[d] \in PostPcs /\ Own(d)' = Own(d) /\ Own(d)' # i
    BY <2>1, <2>3 DEF OtherRequests
  <2>7. \A d, e \in Clients : pc'[d] \in PostPcs /\ pc'[e] \in PostPcs /\ Own(d)' = Own(e)' => d = e
    BY <2>1, <2>6 DEF StoryInv
  <2> QED BY <2>2, <2>4, <2>5, <2>7 DEF StoryInv
<1>2. ASSUME NEW c \in Clients, NEW i \in Invoices, Resubmit(c, i)
      PROVE  StoryInv' /\ UNCHANGED Shown!shown
  <2>1. PICK r \in InvoiceRecord :
           /\ r.status = "evaluating" /\ r.version = versions[i] + 1
           /\ HasStatus(i, "needs_info") /\ UNCHANGED <<record, sent>>
           /\ OtherRequests(c) /\ pc'[c] = "save_resubmitted" /\ Own(c)' = i
           /\ draft'[c].record = r
           /\ versions'[i] = versions[i] + 1 /\ versions[i] \in Nat
           /\ \A j \in Invoices \ {i} : versions'[j] = versions[j]
    BY <1>2, ResubmitDoes
  <2>2. record[i] # None /\ record[i].version <= versions[i] /\ record[i].version \in Nat
    BY <1>r, <2>1 DEF StoryInv, HasStatus
  <2>3. \A j \in Invoices : versions'[j] >= versions[j]
    BY <1>v, <2>1
  <2>4. ASSUME NEW d \in Clients PROVE Relies(d)'
    <3>1. CASE d = c
      BY <2>1, <2>2, <3>1 DEF Relies, PostPcs, HasStatus
    <3>2. CASE d # c
      <4>1. pc[d] = "save_resubmitted" => versions'[Own(d)] >= versions[Own(d)]
        BY <2>3, DraftTyped
      <4> QED BY <2>1, <3>2, <4>1, StillRelies DEF StoryInv, OtherRequests
    <3> QED BY <3>1, <3>2
  <2>5. \A j \in Invoices : /\ versions'[j] = 0 => record'[j] = None
                            /\ record'[j] # None => record'[j].version <= versions'[j]
    BY <1>r, <1>v, <2>1, <2>3 DEF StoryInv
  <2>6. \A d \in Clients : pc'[d] \in PostPcs => pc[d] \in PostPcs /\ Own(d)' = Own(d)
    BY <2>1 DEF OtherRequests, PostPcs
  <2> QED BY <1>s, <2>1, <2>4, <2>5, <2>6 DEF StoryInv
<1>3. ASSUME NEW c \in Clients, SaveEvaluating(c) PROVE StoryInv' /\ Shown!Next
  <2>1. PICK r \in InvoiceRecord :
           /\ pc[c] = "save_evaluating" /\ Own(c) \in Invoices
           /\ r.status = "evaluating" /\ r.version = draft[c].record.version
           /\ Goes(c, "bump_submitted", r) /\ Writes(Own(c), r)
           /\ UNCHANGED <<versions, sent>>
    BY <1>3, SaveEvaluatingDoes
  <2>2. /\ record[Own(c)] # None /\ record[Own(c)].status = "submitted"
        /\ r.version = record[Own(c)].version /\ r.version <= versions[Own(c)]
    BY <2>1, DraftTyped, IntakeAssumption DEF StoryInv, Relies, PostPcs
  <2>3. StoryInv'
    BY <1>w, <2>1, <2>2 DEF Goes, PostPcs
  <2>4. /\ record[Own(c)].status \in DOMAIN Shown!Follows
        /\ r.status \in Shown!Follows[record[Own(c)].status]
    BY <2>1, <2>2 DEF Shown!Follows
  <2>5. Shown!Next
    BY <2>1, <2>2, <2>4, WriteAdvances DEF Writes
  <2> QED BY <2>3, <2>5
<1>4. ASSUME NEW c \in Clients, SaveFailed(c) PROVE StoryInv' /\ Shown!Next
  <2>1. PICK r \in InvoiceRecord :
           /\ pc[c] = "save_failed" /\ Own(c) \in Invoices
           /\ r.status = "submit_failed" /\ r.version = draft[c].record.version
           /\ Ends(c) /\ Writes(Own(c), r)
           /\ UNCHANGED <<versions, sent>>
    BY <1>4, SaveFailedDoes
  <2>2. /\ record[Own(c)] # None /\ record[Own(c)].status = "submitted"
        /\ r.version = record[Own(c)].version /\ r.version <= versions[Own(c)]
    BY <2>1, DraftTyped, IntakeAssumption DEF StoryInv, Relies, PostPcs
  <2>3. StoryInv'
    BY <1>w, <2>1, <2>2 DEF Ends, PostPcs
  <2>4. /\ record[Own(c)].status \in DOMAIN Shown!Follows
        /\ r.status \in Shown!Follows[record[Own(c)].status]
    BY <2>1, <2>2 DEF Shown!Follows
  <2>5. Shown!Next
    BY <2>1, <2>2, <2>4, WriteAdvances DEF Writes
  <2> QED BY <2>3, <2>5
<1>5. ASSUME NEW c \in Clients, SaveResubmitted(c) PROVE StoryInv' /\ Shown!Next
  <2> DEFINE r == draft[c].record
  <2>1. /\ pc[c] = "save_resubmitted" /\ Own(c) \in Invoices /\ r \in InvoiceRecord
        /\ Goes(c, "publish_again", r) /\ Writes(Own(c), r)
        /\ UNCHANGED <<versions, sent>>
    BY <1>5, SaveResubmittedDoes
  <2>2. /\ record[Own(c)] # None /\ record[Own(c)].status = "needs_info"
        /\ r.status = "evaluating" /\ record[Own(c)].version < r.version
        /\ r.version <= versions[Own(c)]
    BY <2>1 DEF StoryInv, Relies, HasStatus
  <2>3. StoryInv'
    BY <1>w, <2>1, <2>2 DEF Goes, PostPcs
  <2>4. /\ StatusShown' = [StatusShown EXCEPT ![Own(c)] = "evaluating"]
        /\ VersionShown' = [VersionShown EXCEPT ![Own(c)] = r.version]
    BY <2>1, <2>2, ShownWritten DEF Writes
  <2>5. /\ StatusShown[Own(c)] = "needs_info"
        /\ VersionShown[Own(c)] = record[Own(c)].version
        /\ VersionShown'[Own(c)] = r.version
    BY <2>1, <2>2, <2>4 DEF StatusShown, VersionShown
  <2>6. r.version \in Nat /\ record[Own(c)].version \in Nat
    BY <1>r, <2>1, <2>2, IntakeAssumption DEF InvoiceRecord, Versions
  <2>7. Shown!Next
    BY <2>1, <2>2, <2>4, <2>5, <2>6 DEF Shown!Next, Shown!Reopen
  <2> QED BY <2>3, <2>7
<1>6. ASSUME NEW c \in Clients,
             \/ Publish(c) \/ BumpSubmitted(c) \/ PublishAgain(c)
             \/ RequestFails(c) \/ PublishFails(c) \/ PublishAgainFails(c)
      PROVE  StoryInv' /\ UNCHANGED Shown!shown
  <2>1. \A d \in Clients \ {c} : pc'[d] = pc[d] /\ draft'[d] = draft[d]
    BY <1>6, PlainRequests DEF Ends, Goes, OtherRequests
  <2>2. \/ pc'[c] \notin PostPcs \cup {"save_resubmitted"}
        \/ /\ pc[c] = "publish" /\ pc'[c] \in PostPcs
           /\ Own(c)' = Own(c) /\ draft'[c].record = draft[c].record
    BY <1>6, PlainRequests DEF Ends, Goes, PostPcs
  <2> QED BY <1>6, <1>k, <2>1, <2>2, PlainRequests
<1>7. ASSUME NEW h \in Handlers,
             \/ \E m \in unacked : Deliver(h, m)
             \/ HandlerStep(h) \/ Raise(h)
      PROVE  StoryInv' /\ [Shown!Next]_(Shown!shown)
  <2>1. /\ UNCHANGED <<draft, versions>> /\ \A c \in Clients : pc'[c] = pc[c]
        /\ Update(h) \/ UNCHANGED record
    BY <1>7, RequestsStay
  <2>2. CASE UNCHANGED record
    BY <1>k, <2>1, <2>2
  <2>3. CASE Update(h) /\ ~UNCHANGED record
    <3> DEFINE m == event[h]
               i == m.invoice
               r == Applied(m, record[i])
    <3>1. /\ Worded(m) /\ m.topic # "invoice-submitted" /\ i \in Invoices
          /\ record[i] # None /\ Expected(m, record[i].status) /\ record[i] \in InvoiceRecord
          /\ r \in InvoiceRecord /\ r.version = record[i].version
          /\ r.status = Target(m) /\ Writes(i, r)
      BY <2>3, UpdateDoes
    <3> HIDE DEF m, i, r
    <3>2. /\ record[i].status \in DOMAIN Shown!Follows
          /\ r.status \in Shown!Follows[record[i].status]
      BY <3>1, TargetFollows
    <3>3. Shown!Next
      BY <3>1, <3>2, WriteAdvances DEF Writes
    <3>4. record[i].status \notin {"submitted", "needs_info"}
      BY <3>1 DEF Expected
    <3>5. ASSUME NEW d \in Clients PROVE Relies(d)'
      <4>1. pc[d] \in PostPcs \cup {"save_resubmitted"} =>
              Own(d) # i /\ Own(d) \in Invoices /\ versions[Own(d)] \in Nat
        BY <1>v, <3>4, DraftTyped DEF StoryInv, Relies, PostPcs, HasStatus
      <4> QED BY <2>1, <3>1, <4>1, StillRelies DEF StoryInv, Writes
    <3>6. \A j \in Invoices : /\ versions'[j] = 0 => record'[j] = None
                              /\ record'[j] # None => record'[j].version <= versions'[j]
      BY <2>1, <3>1 DEF StoryInv, Writes
    <3>7. \A d \in Clients : pc'[d] = pc[d] /\ Own(d)' = Own(d)
      BY <2>1 DEF Own
    <3> QED BY <3>3, <3>5, <3>6, <3>7 DEF StoryInv
  <2> QED BY <2>1, <2>2, <2>3
<1>8. CASE Downstream(FALSE) \/ Downstream(TRUE)
  BY <1>8, <1>k DEF Downstream, stores, locals
<1>9. CASE Crash
  <2>1. UNCHANGED <<record, versions>> /\ \A c \in Clients : pc'[c] = "idle"
    BY <1>9 DEF Crash, stores, Workers
  <2> QED BY <1>k, <2>1 DEF PostPcs
<1>10. CASE UNCHANGED vars
  BY <1>10, <1>k DEF vars, stores, locals
<1> QED BY <1>1, <1>2, <1>3, <1>4, <1>5, <1>6, <1>7, <1>8, <1>9, <1>10 DEF Next, ClientStep

\* The story begins where the life of an invoice does.
LEMMA StoryInit == Init => StoryInv /\ Shown!Init
BY DEF Init, StoryInv, Relies, PostPcs, Shown!Init, StatusShown, VersionShown, Workers

\* As long as no resubmission asks for an invoice while another that asked has yet to
\* write it, intake shows the life of an invoice as it is promised, whatever the events
\* say, in whatever order they arrive and whatever fails (api.py:91-110, status.py:15-63).
THEOREM IntakeImplementsLifecycle == Spec /\ []ResubmissionsDoNotOverlap => FollowsLifecycle
<1>1. /\ ResubmissionsDoNotOverlap /\ TypeInv /\ StoryInv /\ [Next]_vars /\ TypeInv'
           => StoryInv' /\ [Shown!Next]_(Shown!shown)
  BY StoryStep
<1> QED BY <1>1, StoryInit, TypeInvariant, PTL DEF Spec, FollowsLifecycle, Shown!Spec

--------------------------------------------------------------------------------
(* Steps of the handlers, and of the bus.                                   *)

\* The handler stays where it is, with what it holds.
Rests(h) == pc'[h] = pc[h] /\ event'[h] = event[h] /\ updated'[h] = updated[h]

\* What each call of a handler does to its worker, the marks and the counters.
LEMMA HandlerSteps ==
  ASSUME TypeInv, NEW h \in Handlers
  PROVE  /\ \A m \in unacked : Deliver(h, m) =>
              /\ pc[h] = "idle" /\ pc'[h] = "first_time" /\ event'[h] = m
              /\ UNCHANGED <<processed, counters>>
              /\ \A g \in Handlers \ {h} : Rests(g) /\ event[g] # m
         /\ FirstTime(h) =>
              /\ pc[h] = "first_time" /\ event'[h] = event[h]
              /\ pc'[h] = IF event[h] \in processed \/ event[h].topic = "invoice-submitted"
                          THEN "ack" ELSE "update"
              /\ processed' = processed \cup {event[h]} /\ UNCHANGED counters
              /\ \A g \in Handlers \ {h} : Rests(g)
         /\ Update(h) =>
              /\ pc[h] = "update" /\ event'[h] = event[h] /\ pc'[h] \in {"bump", "ack"}
              /\ UNCHANGED <<processed, counters>>
              /\ \A g \in Handlers \ {h} : Rests(g)
         /\ Bump(h) =>
              /\ pc[h] = "bump" /\ event'[h] = event[h] /\ pc'[h] = "ack"
              /\ counters' = [counters EXCEPT ![Counter(event[h], updated[h])] = @ + 1]
              /\ UNCHANGED processed
              /\ \A g \in Handlers \ {h} : Rests(g)
         /\ Ack(h) \/ Raise(h) =>
              /\ pc'[h] = "idle" /\ UNCHANGED counters /\ processed \subseteq processed'
              /\ \A g \in Handlers \ {h} : Rests(g)
<1>1. /\ pc \in [Workers -> {"idle"} \cup ClientPcs \cup HandlerPcs] /\ Handlers \subseteq Workers
      /\ event \in [Handlers -> Message \cup {None}]
      /\ updated \in [Handlers -> InvoiceRecord \cup {None}]
  BY DEF TypeInv, TypeOK, Workers
<1>2. ASSUME NEW m \in unacked, Deliver(h, m)
      PROVE  /\ pc[h] = "idle" /\ pc'[h] = "first_time" /\ event'[h] = m
             /\ UNCHANGED <<processed, counters>>
             /\ \A g \in Handlers \ {h} : Rests(g) /\ event[g] # m
  BY <1>1, <1>2 DEF Deliver, Goto, Rests, stores
<1>3. ASSUME FirstTime(h)
      PROVE  /\ pc[h] = "first_time" /\ event'[h] = event[h]
             /\ pc'[h] = IF event[h] \in processed \/ event[h].topic = "invoice-submitted"
                         THEN "ack" ELSE "update"
             /\ processed' = processed \cup {event[h]} /\ UNCHANGED counters
             /\ \A g \in Handlers \ {h} : Rests(g)
  BY <1>1, <1>3 DEF FirstTime, Goto, Rests, locals
<1>4. ASSUME Update(h)
      PROVE  /\ pc[h] = "update" /\ event'[h] = event[h] /\ pc'[h] \in {"bump", "ack"}
             /\ UNCHANGED <<processed, counters>>
             /\ \A g \in Handlers \ {h} : Rests(g)
  BY <1>1, <1>4 DEF Update, Goto, Rests
<1>5. ASSUME Bump(h)
      PROVE  /\ pc[h] = "bump" /\ event'[h] = event[h] /\ pc'[h] = "ack"
             /\ counters' = [counters EXCEPT ![Counter(event[h], updated[h])] = @ + 1]
             /\ UNCHANGED processed
             /\ \A g \in Handlers \ {h} : Rests(g)
  BY <1>1, <1>5 DEF Bump, Goto, Rests, locals
<1>6. ASSUME Ack(h) \/ Raise(h)
      PROVE  /\ pc'[h] = "idle" /\ UNCHANGED counters /\ processed \subseteq processed'
             /\ \A g \in Handlers \ {h} : Rests(g)
  BY <1>1, <1>6 DEF Ack, Raise, Leave, Goto, Rests, stores
<1> QED BY <1>2, <1>3, <1>4, <1>5, <1>6

\* What a handler may do.
LEMMA HandlerKinds ==
  ASSUME TypeInv, [Next]_vars, NEW h \in Handlers
  PROVE  \/ Rests(h)
         \/ (Ack(h) \/ Raise(h) \/ Crash) /\ pc'[h] = "idle"
         \/ \E m \in unacked : Deliver(h, m)
         \/ FirstTime(h)
         \/ Update(h)
         \/ Bump(h)
<1>1. ASSUME NEW g \in Handlers,
             (\E m \in unacked : Deliver(g, m)) \/ HandlerStep(g) \/ Raise(g)
      PROVE  \/ Rests(h) \/ (\E m \in unacked : Deliver(h, m))
             \/ FirstTime(h) \/ Update(h) \/ Bump(h)
             \/ (Ack(h) \/ Raise(h)) /\ pc'[h] = "idle"
  BY <1>1, HandlerSteps DEF HandlerStep
<1>2. ASSUME NEW c \in Clients,
             \/ \E i \in Invoices : Submit(c, i) \/ Resubmit(c, i)
             \/ ClientStep(c) \/ RequestFails(c) \/ PublishFails(c) \/ PublishAgainFails(c)
      PROVE  Rests(h)
  <2>1. c # h /\ h \in Workers /\ pc \in [Workers -> {"idle"} \cup ClientPcs \cup HandlerPcs]
    BY IntakeAssumption DEF TypeInv, TypeOK, Workers
  <2> QED
    BY <1>2, <2>1
    DEF Submit, Resubmit, ClientStep, Publish, SaveEvaluating, BumpSubmitted, SaveFailed,
        SaveResubmitted, PublishAgain, RequestFails, PublishFails, PublishAgainFails, Answer,
        Hold, Goto, Rests, locals
<1>3. CASE Downstream(FALSE) \/ Downstream(TRUE) \/ UNCHANGED vars
  BY <1>3 DEF Downstream, vars, locals, Rests
<1>4. Crash => pc'[h] = "idle"
  BY DEF Crash, Workers
<1> QED BY <1>1, <1>2, <1>3, <1>4 DEF Next

\* Marks stay.
LEMMA MarksStay ==
  ASSUME TypeInv, [Next]_vars
  PROVE  processed \subseteq processed'
<1>1. ASSUME NEW h \in Handlers,
             (\E m \in unacked : Deliver(h, m)) \/ HandlerStep(h) \/ Raise(h)
      PROVE  processed \subseteq processed'
  BY <1>1, HandlerSteps DEF HandlerStep
<1>2. ASSUME NEW c \in Clients,
             \/ \E i \in Invoices : Submit(c, i) \/ Resubmit(c, i)
             \/ ClientStep(c) \/ RequestFails(c) \/ PublishFails(c) \/ PublishAgainFails(c)
      PROVE  UNCHANGED processed
  BY <1>2
  DEF Submit, Resubmit, ClientStep, Publish, SaveEvaluating, BumpSubmitted, SaveFailed,
      SaveResubmitted, PublishAgain, RequestFails, PublishFails, PublishAgainFails, stores
<1> QED BY <1>1, <1>2 DEF Next, Downstream, Crash, stores, vars

\* What is published, and by whom.
Announces(c) ==
  /\ pc[c] \in {"publish", "publish_again"}
  /\ Broadcast(Msg("invoice-submitted", Own(c), draft[c].record.version, None))
  /\ pc'[c] # pc[c]
  /\ UNCHANGED record

\* No service answered once more than it was asked to.
NoRepeats == ~Suffered({"again"})

\* A step counts one fault or none.
LEMMA FaultsMove ==
  ASSUME [Next]_vars
  PROVE  UNCHANGED faults \/ \E kind : Fault(kind)
<1>1. ASSUME NEW h \in Handlers,
             (\E m \in unacked : Deliver(h, m)) \/ HandlerStep(h) \/ Raise(h)
      PROVE  UNCHANGED faults \/ \E kind : Fault(kind)
  BY <1>1 DEF Deliver, HandlerStep, FirstTime, Update, Bump, Ack, Raise
<1>2. ASSUME NEW c \in Clients,
             \/ \E i \in Invoices : Submit(c, i) \/ Resubmit(c, i)
             \/ ClientStep(c) \/ RequestFails(c) \/ PublishFails(c) \/ PublishAgainFails(c)
      PROVE  UNCHANGED faults \/ \E kind : Fault(kind)
  BY <1>2
  DEF Submit, Resubmit, ClientStep, Publish, SaveEvaluating, BumpSubmitted, SaveFailed,
      SaveResubmitted, PublishAgain, RequestFails, PublishFails, PublishAgainFails, Ambiguous
<1>3. CASE Downstream(FALSE) \/ Downstream(TRUE)
  BY <1>3 DEF Downstream, Decide, Review, Pay, Publishes
<1> QED BY <1>1, <1>2, <1>3 DEF Next, Crash, vars

\* A service that answered once more did so for good.
LEMMA RepeatsStay ==
  ASSUME TypeInv, [Next]_vars, NoRepeats'
  PROVE  NoRepeats /\ ~Fault("again")
<1>0. /\ \A k \in AllFaultKinds : faults[k] \in Nat /\ faults'[k] \in Nat
      /\ faults \in [AllFaultKinds -> 0 .. MaxFaults] /\ "again" \in AllFaultKinds
  BY TypeStep DEF TypeInv, TypeOK, AllFaultKinds
<1>1. ~Fault("again")
  BY FaultCounted DEF NoRepeats, Suffered
<1>2. UNCHANGED faults \/ \E kind : Fault(kind)
  BY FaultsMove
<1>3. faults["again"] <= faults'["again"]
  <2>1. ASSUME NEW kind, Fault(kind) PROVE faults["again"] <= faults'["again"]
    BY <1>0, <2>1, FaultCounted DEF Fault
  <2> QED BY <1>0, <1>2, <2>1
<1> QED BY <1>0, <1>1, <1>3 DEF NoRepeats, Suffered

\* Events are sent by requests and by the other services, never by a handler.
LEMMA Sendings ==
  ASSUME TypeInv, [Next]_vars
  PROVE  \/ UNCHANGED sent /\ unacked' \subseteq unacked
         \/ \E c \in Clients : Announces(c)
         \/ \E m \in sent : Replies(m) /\ UNCHANGED <<stores, pc, locals>>
<1>1. ASSUME NEW h \in Handlers,
             (\E m \in unacked : Deliver(h, m)) \/ HandlerStep(h) \/ Raise(h)
      PROVE  UNCHANGED sent /\ unacked' \subseteq unacked
  <2>1. UNCHANGED sent
    BY <1>1, RequestsStay
  <2>2. unacked' \subseteq unacked
    BY <1>1 DEF Deliver, HandlerStep, FirstTime, Update, Bump, Ack, Raise, bus
  <2> QED BY <2>1, <2>2
<1>2. ASSUME NEW c \in Clients, Publish(c) \/ PublishAgain(c) \/ PublishFails(c) \/ PublishAgainFails(c)
      PROVE  UNCHANGED bus \/ Announces(c)
  <2>1. pc'[c] # pc[c]
    BY <1>2 DEF TypeInv, TypeOK, Workers, Publish, PublishAgain, PublishFails,
                PublishAgainFails, Answer, Goto
  <2> QED BY <1>2, <2>1 DEF Publish, PublishAgain, PublishFails, PublishAgainFails, Ambiguous,
                            Announces, stores
<1>3. ASSUME NEW c \in Clients,
             \/ \E i \in Invoices : Submit(c, i) \/ Resubmit(c, i)
             \/ SaveEvaluating(c) \/ BumpSubmitted(c) \/ SaveFailed(c) \/ SaveResubmitted(c)
             \/ RequestFails(c)
      PROVE  UNCHANGED bus
  BY <1>3 DEF Submit, Resubmit, SaveEvaluating, BumpSubmitted, SaveFailed, SaveResubmitted,
              RequestFails
<1>4. CASE Downstream(FALSE) \/ Downstream(TRUE)
  BY <1>4 DEF Downstream, Replies
<1>5. CASE Crash \/ UNCHANGED vars
  BY <1>5 DEF Crash, vars, bus
<1>6. UNCHANGED bus => UNCHANGED sent /\ unacked' \subseteq unacked
  BY DEF bus
<1> QED BY <1>1, <1>2, <1>3, <1>4, <1>5, <1>6 DEF Next, ClientStep

--------------------------------------------------------------------------------
(* What the bus carries, and who handles it.                                *)

Answers  == {"decision-made", "approval-resolved"}
Payments == {"payment-completed", "payment-failed"}

\* The other event is about the same submission.
Fellow(m, n) == n.invoice = m.invoice /\ n.version = m.version

\* A submission is answered once; what is paid was approved.
BusInv ==
  /\ \A m \in sent : m.copy = 0
  /\ \A m \in sent : m.topic = "invoice-submitted" => m.outcome = None
  /\ \A m, n \in sent : m.topic \in Answers /\ n.topic = m.topic /\ Fellow(m, n) => m = n
  /\ \A m \in sent : m.topic \in Payments =>
       \E n \in sent : n.outcome \in {"auto_approve", "approved"} /\ Fellow(m, n)

\* No two handlers hold one event, and who works on one has made its mark.
HandsInv ==
  /\ \A g, h \in Handlers : pc[g] # "idle" /\ pc[h] # "idle" /\ event[g] = event[h] => g = h
  /\ \A h \in Handlers : pc[h] \in {"update", "bump"} => event[h] \in processed

\* The event will not be applied any more.
Used(m) == m \in processed /\ \A h \in Handlers : pc[h] = "update" => event[h] # m

\* The fields of an event.
LEMMA MsgParts ==
  ASSUME NEW t, NEW i, NEW v, NEW o
  PROVE  /\ Msg(t, i, v, o).topic = t /\ Msg(t, i, v, o).invoice = i
         /\ Msg(t, i, v, o).version = v /\ Msg(t, i, v, o).outcome = o
         /\ Msg(t, i, v, o).copy = 0
BY DEF Msg

\* The other services talk of what is talked of: they answer what calls for an answer,
\* and pay what was approved, once for an invoice, unless one of them repeats itself.
LEMMA DownstreamSays ==
  ASSUME TypeInv, NoRepeats', NEW m \in sent, Replies(m)
  PROVE  \E n :
           /\ sent' = sent \cup {n} /\ unacked' = unacked \cup {n} /\ n.copy = 0
           /\ Fellow(m, n) /\ Fellow(n, m)
           /\ \/ /\ n.topic = "decision-made" /\ m.topic = "invoice-submitted"
                 /\ ~Answered({"decision-made"}, n.invoice, n.version)
              \/ /\ n.topic = "approval-resolved"
                 /\ m.topic = "decision-made" /\ m.outcome = "human_review"
                 /\ ~Answered({"approval-resolved"}, n.invoice, n.version)
              \/ /\ n.topic \in Payments /\ m.outcome \in {"auto_approve", "approved"}
                 /\ \A v \in Versions : ~Answered(Payments, n.invoice, v)
<1>0. ~Fault("again")
  BY FaultCounted DEF NoRepeats, Suffered
<1>1. Decide(m, FALSE) \/ Review(m, FALSE) \/ Pay(m, FALSE)
  <2>1. ~Decide(m, TRUE) /\ ~Review(m, TRUE) /\ ~Pay(m, TRUE)
    BY <1>0 DEF Decide, Review, Pay, Publishes
  <2> QED BY <2>1 DEF Replies
<1>2. CASE Decide(m, FALSE)
  <2>1. PICK o \in Routes : Publishes(FALSE, Msg("decision-made", m.invoice, m.version, o))
    BY <1>2 DEF Decide
  <2> DEFINE n == Msg("decision-made", m.invoice, m.version, o)
  <2>2. /\ n.topic = "decision-made" /\ n.invoice = m.invoice /\ n.version = m.version
        /\ n.copy = 0 /\ sent' = sent \cup {n} /\ unacked' = unacked \cup {n}
    BY <2>1, MsgParts DEF Publishes, Broadcast
  <2> HIDE DEF n
  <2> QED BY <1>2, <2>2 DEF Decide, Fellow
<1>3. CASE Review(m, FALSE)
  <2>1. PICK o \in Verdicts : Publishes(FALSE, Msg("approval-resolved", m.invoice, m.version, o))
    BY <1>3 DEF Review
  <2> DEFINE n == Msg("approval-resolved", m.invoice, m.version, o)
  <2>2. /\ n.topic = "approval-resolved" /\ n.invoice = m.invoice /\ n.version = m.version
        /\ n.copy = 0 /\ sent' = sent \cup {n} /\ unacked' = unacked \cup {n}
    BY <2>1, MsgParts DEF Publishes, Broadcast
  <2> HIDE DEF n
  <2> QED BY <1>3, <2>2 DEF Review, Fellow
<1>4. CASE Pay(m, FALSE)
  <2>1. PICK t \in Payments : Publishes(FALSE, Msg(t, m.invoice, m.version, None))
    BY <1>4 DEF Pay, Payments
  <2> DEFINE n == Msg(t, m.invoice, m.version, None)
  <2>2. /\ n.topic \in Payments /\ n.invoice = m.invoice /\ n.version = m.version
        /\ n.copy = 0 /\ sent' = sent \cup {n} /\ unacked' = unacked \cup {n}
    BY <2>1, MsgParts DEF Publishes, Broadcast
  <2> HIDE DEF n
  <2> QED BY <1>4, <2>2 DEF Pay, Fellow, Payments
<1> QED BY <1>1, <1>2, <1>3, <1>4

\* Every step keeps what the events on the broker say of each other.
LEMMA BusStep ==
  ASSUME TypeInv, BusInv, [Next]_vars, NoRepeats'
  PROVE  BusInv'
<1>1. CASE UNCHANGED sent
  BY <1>1 DEF BusInv
\* One more event.
<1>2. ASSUME NEW n, sent' = sent \cup {n}, n.copy = 0,
             n.topic = "invoice-submitted" => n.outcome = None,
             n.topic \in Answers => ~Answered({n.topic}, n.invoice, n.version),
             n.topic \in Payments =>
               \E m \in sent : m.outcome \in {"auto_approve", "approved"} /\ Fellow(n, m)
      PROVE  BusInv'
  <2>1. \A m \in sent : n.topic \in Answers /\ m.topic = n.topic => ~Fellow(m, n) /\ ~Fellow(n, m)
    BY <1>2 DEF Answered, Fellow
  <2> QED BY <1>2, <2>1 DEF BusInv
<1>3. ASSUME NEW c \in Clients, Announces(c) PROVE BusInv'
  <2> DEFINE n == Msg("invoice-submitted", Own(c), draft[c].record.version, None)
  <2>1. n.topic = "invoice-submitted" /\ n.outcome = None /\ n.copy = 0 /\ sent' = sent \cup {n}
    BY <1>3, MsgParts DEF Announces, Broadcast
  <2> HIDE DEF n
  <2>2. n.topic \notin Answers /\ n.topic \notin Payments
    BY <2>1 DEF Answers, Payments
  <2> QED BY <1>2, <2>1, <2>2
<1>4. ASSUME NEW m \in sent, Replies(m) PROVE BusInv'
  <2>1. PICK n :
           /\ sent' = sent \cup {n} /\ n.copy = 0 /\ Fellow(m, n) /\ Fellow(n, m)
           /\ \/ /\ n.topic = "decision-made" /\ m.topic = "invoice-submitted"
                 /\ ~Answered({"decision-made"}, n.invoice, n.version)
              \/ /\ n.topic = "approval-resolved"
                 /\ m.topic = "decision-made" /\ m.outcome = "human_review"
                 /\ ~Answered({"approval-resolved"}, n.invoice, n.version)
              \/ /\ n.topic \in Payments /\ m.outcome \in {"auto_approve", "approved"}
                 /\ \A v \in Versions : ~Answered(Payments, n.invoice, v)
    BY <1>4, DownstreamSays
  <2>2. n.topic # "invoice-submitted" /\ (n.topic \in Answers => ~Answered({n.topic}, n.invoice, n.version))
    BY <2>1 DEF Answers, Payments
  <2>3. n.topic \in Payments =>
          \E k \in sent : k.outcome \in {"auto_approve", "approved"} /\ Fellow(n, k)
    BY <2>1 DEF Payments
  <2> QED BY <1>2, <2>1, <2>2, <2>3
<1> QED BY <1>1, <1>3, <1>4, Sendings

\* Every step keeps each event in one pair of hands.
LEMMA HandsStep ==
  ASSUME TypeInv, HandsInv, [Next]_vars
  PROVE  HandsInv'
<1>1. ASSUME NEW h \in Handlers, pc'[h] # "idle"
      PROVE  \/ pc[h] # "idle" /\ event'[h] = event[h]
             \/ \E m \in unacked : Deliver(h, m)
  BY <1>1, HandlerKinds, HandlerSteps DEF Rests
<1>2. ASSUME NEW g \in Handlers, NEW h \in Handlers, pc'[g] # "idle", pc'[h] # "idle",
             event'[g] = event'[h]
      PROVE  g = h
  <2>1. ASSUME NEW a \in Handlers, NEW b \in Handlers, NEW m \in unacked, Deliver(a, m),
               event'[b] = m
        PROVE  a = b
    BY <2>1, HandlerSteps DEF Rests
  <2>2. ASSUME NEW a \in Handlers, NEW m \in unacked, Deliver(a, m) PROVE event'[a] = m
    BY <2>2, HandlerSteps
  <2> QED BY <1>1, <1>2, <2>1, <2>2 DEF HandsInv
<1>3. ASSUME NEW h \in Handlers, pc'[h] \in {"update", "bump"} PROVE event'[h] \in processed'
  BY <1>3, HandlerKinds, HandlerSteps, MarksStay DEF Rests, HandsInv
<1> QED BY <1>2, <1>3 DEF HandsInv

\* An event that is used up stays so, and is after its update.
LEMMA UsedStays ==
  ASSUME TypeInv, [Next]_vars, NEW m, Used(m)
  PROVE  Used(m)'
<1>1. ASSUME NEW h \in Handlers, pc'[h] = "update" PROVE event'[h] # m
  BY <1>1, HandlerKinds, HandlerSteps DEF Rests, Used
<1> QED BY <1>1, MarksStay DEF Used

\* A handler that updates the record uses its event up.
LEMMA UpdateUses ==
  ASSUME TypeInv, HandsInv, NEW h \in Handlers, Update(h)
  PROVE  ~Used(event[h]) /\ Used(event[h])'
<1>1. event[h] \in processed /\ UNCHANGED processed /\ pc[h] = "update"
  BY HandlerSteps DEF HandsInv
<1>2. ASSUME NEW g \in Handlers, pc'[g] = "update" PROVE event'[g] # event[h]
  <2>1. g # h
    BY <1>2, HandlerSteps
  <2> QED BY <1>1, <1>2, <2>1, HandlerSteps DEF Rests, HandsInv
<1>3. event'[h] = event[h]
  BY HandlerSteps
<1>4. ~Used(event[h])
  BY <1>1 DEF Used
<1>5. event[h] \in processed' /\ \A g \in Handlers : pc'[g] = "update" => event'[g] # event[h]
  BY <1>1, <1>2
<1> QED BY <1>3, <1>4, <1>5 DEF Used

--------------------------------------------------------------------------------
(* What the status goes back to.                                            *)

\* Something was said about a submission, and will not be applied any more.
Happened(topic, i, v, outcome) == \E m \in sent : m = Msg(topic, i, v, outcome) /\ Used(m)

Escalated(i, v) == Happened("decision-made", i, v, "human_review")
Closed(i, v)    == Escalated(i, v) /\ Happened("approval-resolved", i, v, "needs_info")

\* Events are about the submission that is stored, or about one that was closed.
SentKnown ==
  \A m \in sent :
    /\ record[m.invoice] # None /\ m.version <= record[m.invoice].version
    /\ m.version < record[m.invoice].version => Closed(m.invoice, m.version)

\* A resubmission that is written and not yet published waits alone.
PutInv ==
  /\ \A c \in Clients : pc[c] = "publish_again" =>
       /\ HasStatus(Own(c), "evaluating") /\ record[Own(c)].version = draft[c].record.version
       /\ \A m \in sent : ~(m.invoice = Own(c) /\ m.version = draft[c].record.version)
  /\ \A c, d \in Clients : (/\ pc[c] = "publish_again" /\ pc[d] = "publish_again"
                            /\ Own(c) = Own(d)) => c = d

\* What the status of an invoice goes back to.
Earned(i) ==
  LET s == record[i].status IN
  /\ s \in {"approved", "paid", "payment_failed"} => ApprovedBy(i)
  /\ s = "paid" => Said(i, "payment-completed", None)
  /\ s = "payment_failed" => Said(i, "payment-failed", None)
  /\ s = "pending_approval" => Said(i, "decision-made", "human_review")
  /\ s = "needs_info" => Said(i, "approval-resolved", "needs_info")
  /\ s = "rejected" => Said(i, "decision-made", "reject") \/ Said(i, "approval-resolved", "rejected")
  /\ s = "duplicate" => Said(i, "decision-made", "duplicate")

Traced(i) ==
  /\ HasStatus(i, "pending_approval") => Escalated(i, record[i].version)
  /\ HasStatus(i, "needs_info") => Closed(i, record[i].version)
  /\ record[i] # None => Earned(i)

RecordInv == SentKnown /\ PutInv /\ \A i \in Invoices : Traced(i)

\* What was published stays so.
LEMMA SentGrows ==
  ASSUME TypeInv, [Next]_vars
  PROVE  sent \subseteq sent'
<1>1. ASSUME NEW m \in sent, Replies(m) PROVE sent \subseteq sent'
  BY <1>1, RepliesWorded DEF Broadcast
<1> QED BY <1>1, Sendings DEF Announces, Broadcast

\* What happened stays so.
LEMMA HappenedStays ==
  ASSUME TypeInv, [Next]_vars, NEW t, NEW i, NEW v, NEW o, Happened(t, i, v, o)
  PROVE  Happened(t, i, v, o)'
<1>1. PICK m \in sent : m = Msg(t, i, v, o) /\ Used(m)
  BY DEF Happened
<1>2. m \in sent' /\ Used(m)'
  BY <1>1, SentGrows, UsedStays
<1> QED BY <1>1, <1>2 DEF Happened

\* A submission that was escalated or closed stays so.
LEMMA ClosedStays ==
  ASSUME TypeInv, [Next]_vars, NEW i, NEW v
  PROVE  (Escalated(i, v) => Escalated(i, v)') /\ (Closed(i, v) => Closed(i, v)')
BY HappenedStays DEF Escalated, Closed

\* A submission that was closed is not approved.
LEMMA ClosedIsOver ==
  ASSUME TypeInv, BusInv, NEW i, NEW v, Closed(i, v)
  PROVE  \E d, a \in sent :
           /\ d.topic = "decision-made" /\ d.invoice = i /\ d.version = v /\ Used(d)
           /\ a.topic = "approval-resolved" /\ a.invoice = i /\ a.version = v /\ Used(a)
           /\ \A n \in sent : n.invoice = i /\ n.version = v =>
                /\ n.topic \in Answers => n = d \/ n = a
                /\ n.outcome \notin {"auto_approve", "approved"}
<1>1. PICK d \in sent : d = Msg("decision-made", i, v, "human_review") /\ Used(d)
  BY DEF Closed, Escalated, Happened
<1>2. PICK a \in sent : a = Msg("approval-resolved", i, v, "needs_info") /\ Used(a)
  BY DEF Closed, Happened
<1>3. /\ d.topic = "decision-made" /\ d.invoice = i /\ d.version = v /\ d.outcome = "human_review"
      /\ a.topic = "approval-resolved" /\ a.invoice = i /\ a.version = v /\ a.outcome = "needs_info"
  BY <1>1, <1>2, MsgParts
<1>4. ASSUME NEW n \in sent, n.invoice = i, n.version = v
      PROVE  /\ n.topic \in Answers => n = d \/ n = a
             /\ n.outcome \notin {"auto_approve", "approved"}
  <2>1. n.topic \in Answers => n = d \/ n = a
    BY <1>3, <1>4 DEF BusInv, Fellow, Answers
  <2>2. n.topic \in Answers => n.outcome \notin {"auto_approve", "approved"}
    BY <1>3, <2>1
  <2>3. n.topic \notin Answers => n.outcome = None
    BY DEF TypeInv, Holding, Worded, Message, BusInv, Answers
  <2>4. None \notin {"auto_approve", "approved"}
    BY IntakeAssumption DEF Routes, Verdicts
  <2> QED BY <2>1, <2>2, <2>3, <2>4
<1> QED BY <1>1, <1>2, <1>3, <1>4

\* An event of another service that is still to be applied is about the submission
\* that is stored.
LEMMA CurrentOnly ==
  ASSUME TypeInv, BusInv, SentKnown, NEW m \in sent, m.topic # "invoice-submitted", ~Used(m)
  PROVE  m.version = record[m.invoice].version
<1> DEFINE i == m.invoice
           v == m.version
<1>1. Worded(m) /\ v \in Nat /\ record[i] # None /\ record[i].version \in Nat /\ v <= record[i].version
  BY DEF TypeInv, TypeOK, Holding, Worded, Message, Versions, InvoiceRecord, SentKnown
<1>2. ASSUME Closed(i, v) PROVE FALSE
  <2>1. PICK d \in sent, a \in sent :
          /\ Used(d) /\ Used(a)
          /\ \A n \in sent : n.invoice = i /\ n.version = v =>
               /\ n.topic \in Answers => n = d \/ n = a
               /\ n.outcome \notin {"auto_approve", "approved"}
    BY <1>2, ClosedIsOver
  <2>2. m.topic \in Payments
    BY <1>1, <2>1 DEF Worded, Message, Answers, Payments
  <2>3. PICK n \in sent : n.outcome \in {"auto_approve", "approved"} /\ Fellow(m, n)
    BY <2>2 DEF BusInv
  <2> QED BY <2>1, <2>3 DEF Fellow
<1> HIDE DEF i, v
<1>3. v < record[i].version => Closed(i, v)
  BY DEF SentKnown, i, v
<1> QED BY <1>1, <1>2, <1>3 DEF i, v

\* How records may change: one is submitted, the request that submitted it takes it on,
\* it is written again after it was sent back, or an event applies.
Begins(i, r) == record[i] = None /\ r.status = "submitted" /\ r.version = 1

TakesOn(i, r) ==
  /\ HasStatus(i, "submitted") /\ r.status \in {"evaluating", "submit_failed"}
  /\ r.version = record[i].version
  /\ r.status = "submit_failed" => \E c \in Clients : pc[c] = "save_failed"

PublishesNext(i) == \E c \in Clients : pc'[c] = "publish" /\ Own(c)' = i

\* The ways in which the record of an invoice changes.
LEMMA RecordKinds ==
  ASSUME TypeInv, StoryInv, [Next]_vars
  PROVE  \/ UNCHANGED record
         \/ /\ UNCHANGED sent
            /\ \/ \E i \in Invoices, r \in InvoiceRecord :
                    Writes(i, r) /\ ((Begins(i, r) /\ PublishesNext(i)) \/ TakesOn(i, r))
               \/ \E c \in Clients : SaveResubmitted(c)
               \/ \E h \in Handlers : Update(h)
<1>1. ASSUME NEW c \in Clients, NEW i \in Invoices, Submit(c, i)
      PROVE  /\ UNCHANGED sent
             /\ \E r \in InvoiceRecord : Writes(i, r) /\ Begins(i, r) /\ PublishesNext(i)
  <2>1. UNCHANGED sent
    BY <1>1 DEF Submit, bus
  <2> QED BY <1>1, <2>1, SubmitDoes DEF Begins, PublishesNext
<1>2. ASSUME NEW c \in Clients, SaveEvaluating(c) \/ SaveFailed(c)
      PROVE  UNCHANGED sent /\ \E i \in Invoices, r \in InvoiceRecord : Writes(i, r) /\ TakesOn(i, r)
  <2>1. PICK r \in InvoiceRecord :
          /\ pc[c] \in {"save_evaluating", "save_failed"} /\ Own(c) \in Invoices
          /\ r.status \in {"evaluating", "submit_failed"} /\ r.version = draft[c].record.version
          /\ r.status = "submit_failed" => pc[c] = "save_failed"
          /\ Writes(Own(c), r) /\ UNCHANGED sent
    BY <1>2, SaveEvaluatingDoes, SaveFailedDoes
  <2>2. record[Own(c)] = draft[c].record /\ draft[c].record.status = "submitted"
    BY <2>1 DEF StoryInv, Relies, PostPcs
  <2>3. draft[c].record # None
    BY <2>1, DraftTyped, IntakeAssumption
  <2> QED BY <2>1, <2>2, <2>3 DEF TakesOn, HasStatus
<1>3. ASSUME NEW c \in Clients, NEW i \in Invoices, Resubmit(c, i) PROVE UNCHANGED record
  BY <1>3 DEF Resubmit, stores
<1>4. ASSUME NEW c \in Clients, SaveResubmitted(c) PROVE UNCHANGED sent
  BY <1>4 DEF SaveResubmitted, bus
<1>5. ASSUME NEW h \in Handlers,
             (\E m \in unacked : Deliver(h, m)) \/ HandlerStep(h) \/ Raise(h)
      PROVE  UNCHANGED sent /\ (UNCHANGED record \/ Update(h))
  BY <1>5, RequestsStay
<1>6. CASE Downstream(FALSE) \/ Downstream(TRUE) \/ Crash \/ UNCHANGED vars
  BY <1>6 DEF Downstream, Crash, vars, stores
<1> QED BY <1>1, <1>2, <1>3, <1>4, <1>5, <1>6, PlainRequests DEF Next, ClientStep

\* An event that applies is the one the story waits for, and is used up.
LEMMA UpdateFinds ==
  ASSUME TypeInv, HandsInv, [Next]_vars, NEW h \in Handlers, Update(h),
         record' # record \/ pc'[h] = "bump"
  PROVE  \E m \in sent :
           /\ m = event[h] /\ pc'[h] = "bump"
           /\ Worded(m) /\ m.topic # "invoice-submitted" /\ m.invoice \in Invoices
           /\ Used(m)' /\ (BusInv /\ SentKnown => m.version = record[m.invoice].version)
           /\ record[m.invoice] # None /\ Expected(m, record[m.invoice].status)
           /\ \E r \in InvoiceRecord :
                /\ updated'[h] = r
                /\ Writes(m.invoice, r) /\ r.version = record[m.invoice].version
                /\ r.status = Target(m) /\ r.decided_by = DecidedBy(m, record[m.invoice])
<1>0. PICK m : m = event[h]
  OBVIOUS
<1> DEFINE r == Applied(m, record[m.invoice])
<1>1. /\ m \in sent /\ Worded(m) /\ m.topic # "invoice-submitted" /\ m.invoice \in Invoices
      /\ record[m.invoice] # None /\ Expected(m, record[m.invoice].status)
      /\ r \in InvoiceRecord /\ r.version = record[m.invoice].version
      /\ r.status = Target(m) /\ r.decided_by = DecidedBy(m, record[m.invoice])
      /\ Writes(m.invoice, r) /\ updated'[h] = r /\ pc'[h] = "bump"
  BY <1>0, UpdateDoes
<1>2. ~Used(m) /\ event'[h] = m /\ Used(event[h])'
  BY <1>0, UpdateUses, HandlerSteps
<1>3. Used(m)'
  BY <1>2 DEF Used
<1>4. BusInv /\ SentKnown => m.version = record[m.invoice].version
  BY <1>1, <1>2, CurrentOnly
<1> HIDE DEF r
<1> QED BY <1>0, <1>1, <1>3, <1>4

\* A record never goes away, and its version grows only while it is sent back.
LEMMA RecordMoves ==
  ASSUME TypeInv, StoryInv, HandsInv, [Next]_vars, NEW i \in Invoices,
         record[i] # None
  PROVE  /\ record'[i] # None
         /\ record[i].version \in Nat /\ record'[i].version \in Nat
         /\ \/ record'[i].version = record[i].version
            \/ record[i].version < record'[i].version /\ HasStatus(i, "needs_info")
<1>1. record[i].version \in Nat
  BY IntakeAssumption DEF TypeInv, TypeOK, InvoiceRecord, Versions
<1>2. \A r \in InvoiceRecord : r # None /\ r.version \in Nat
  BY IntakeAssumption DEF InvoiceRecord, Versions
<1>3. ASSUME NEW j \in Invoices, NEW r \in InvoiceRecord, Writes(j, r), Begins(j, r) \/ TakesOn(j, r)
      PROVE  record'[i] # None /\ record'[i].version = record[i].version
  BY <1>2, <1>3 DEF Writes, Begins, TakesOn
<1>4. ASSUME NEW c \in Clients, SaveResubmitted(c)
      PROVE  /\ record'[i] # None /\ record'[i].version \in Nat
             /\ \/ record'[i].version = record[i].version
                \/ record[i].version < record'[i].version /\ HasStatus(i, "needs_info")
  <2>1. /\ pc[c] = "save_resubmitted" /\ draft[c].record \in InvoiceRecord
        /\ Writes(Own(c), draft[c].record)
    BY <1>4, SaveResubmittedDoes
  <2>2. HasStatus(Own(c), "needs_info") /\ record[Own(c)].version < draft[c].record.version
    BY <2>1 DEF StoryInv, Relies
  <2> QED BY <1>1, <1>2, <2>1, <2>2 DEF Writes
<1>5. ASSUME NEW h \in Handlers, Update(h), record' # record
      PROVE  record'[i] # None /\ record'[i].version = record[i].version
  <2>1. PICK j \in Invoices, r \in InvoiceRecord : Writes(j, r) /\ r.version = record[j].version
    BY <1>5, UpdateFinds
  <2> QED BY <1>2, <2>1 DEF Writes
<1> QED BY <1>1, <1>3, <1>4, <1>5, RecordKinds

\* Every step keeps the events about submissions that intake knows.
LEMMA SentKnownStep ==
  ASSUME TypeInv, StoryInv, BusInv, HandsInv, RecordInv, [Next]_vars, NoRepeats'
  PROVE  SentKnown'
<1> USE DEF RecordInv
<1>t. \A m \in sent : m.invoice \in Invoices /\ m.version \in Nat
  BY DEF TypeInv, TypeOK, Message, Versions
\* What is known of an event stays known.
<1>1. ASSUME NEW m \in sent
      PROVE  /\ record'[m.invoice] # None /\ m.version <= record'[m.invoice].version
             /\ m.version < record'[m.invoice].version => Closed(m.invoice, m.version)'
  <2> DEFINE i == m.invoice
             v == m.version
  <2>1. /\ record[i] # None /\ v <= record[i].version
        /\ v < record[i].version => Closed(i, v)
    BY DEF SentKnown
  <2>2. /\ record'[i] # None
        /\ record[i].version \in Nat /\ record'[i].version \in Nat
        /\ \/ record'[i].version = record[i].version
           \/ record[i].version < record'[i].version /\ HasStatus(i, "needs_info")
    BY <1>t, <2>1, RecordMoves
  <2>3. HasStatus(i, "needs_info") => Closed(i, record[i].version)
    BY <1>t DEF Traced
  <2>4. Closed(i, v) => Closed(i, v)'
    BY ClosedStays
  <2> HIDE DEF i, v
  <2>5. v \in Nat
    BY <1>t DEF v
  <2>6. v < record'[i].version => Closed(i, v)
    BY <2>1, <2>2, <2>3, <2>5
  <2> QED BY <2>1, <2>2, <2>4, <2>5, <2>6 DEF i, v
\* One more event, about a submission that is stored or is talked of.
<1>2. ASSUME NEW n, sent' = sent \cup {n},
             /\ record'[n.invoice] # None /\ n.version <= record'[n.invoice].version
             /\ n.version < record'[n.invoice].version => Closed(n.invoice, n.version)'
      PROVE  SentKnown'
  BY <1>1, <1>2 DEF SentKnown
<1>3. ASSUME NEW c \in Clients, Announces(c) PROVE SentKnown'
  <2> DEFINE n == Msg("invoice-submitted", Own(c), draft[c].record.version, None)
  <2>1. /\ n.invoice = Own(c) /\ n.version = draft[c].record.version
        /\ sent' = sent \cup {n} /\ UNCHANGED record
    BY <1>3, MsgParts DEF Announces, Broadcast
  <2> HIDE DEF n
  <2>2. draft[c] # None /\ draft[c].record \in InvoiceRecord /\ draft[c].record.version \in Nat
    BY <1>3, DraftTyped, IntakeAssumption DEF Announces, Versions
  <2>3. record[Own(c)] # None /\ record[Own(c)].version = draft[c].record.version
    BY <1>3, <2>2, IntakeAssumption DEF Announces, StoryInv, Relies, PostPcs, PutInv, HasStatus
  <2> QED BY <1>2, <2>1, <2>2, <2>3
<1>4. ASSUME NEW m \in sent, Replies(m) PROVE SentKnown'
  <2>1. PICK n : sent' = sent \cup {n} /\ Fellow(m, n)
    BY <1>4, DownstreamSays
  <2> QED BY <1>1, <1>2, <2>1 DEF Fellow
<1>5. CASE UNCHANGED sent
  BY <1>1, <1>5 DEF SentKnown
<1> QED BY <1>3, <1>4, <1>5, Sendings

\* What a request may do.
Waits(c) == pc'[c] = pc[c] /\ draft'[c] = draft[c] /\ Own(c)' = Own(c)

\* What a step may do to a request.
LEMMA ClientKinds ==
  ASSUME TypeInv, [Next]_vars, NEW c \in Clients
  PROVE  \/ Waits(c)
         \/ (\E i \in Invoices : Submit(c, i)) /\ pc'[c] = "publish"
         \/ (\E i \in Invoices : Resubmit(c, i)) /\ pc'[c] = "save_resubmitted"
         \/ Publish(c) /\ pc'[c] = "save_evaluating"
         \/ PublishFails(c) /\ pc'[c] = "save_failed"
         \/ SaveEvaluating(c) /\ pc'[c] = "bump_submitted"
         \/ SaveResubmitted(c) /\ pc'[c] = "publish_again"
         \/ /\ BumpSubmitted(c) \/ SaveFailed(c) \/ PublishAgain(c) \/ RequestFails(c)
                 \/ PublishAgainFails(c) \/ Crash
            /\ pc'[c] = "idle"
<1>t. c \in Workers /\ pc \in [Workers -> {"idle"} \cup ClientPcs \cup HandlerPcs]
      /\ draft \in [Clients -> Draft \cup {None}]
  BY DEF TypeInv, TypeOK, Workers
<1>1. ASSUME NEW h \in Handlers,
             (\E m \in unacked : Deliver(h, m)) \/ HandlerStep(h) \/ Raise(h)
      PROVE  Waits(c)
  BY <1>1, RequestsStay DEF Own, Waits
<1>2. ASSUME NEW d \in Clients \ {c},
             \/ \E i \in Invoices : Submit(d, i) \/ Resubmit(d, i)
             \/ ClientStep(d) \/ RequestFails(d) \/ PublishFails(d) \/ PublishAgainFails(d)
      PROVE  Waits(c)
  BY <1>2, <1>t
  DEF Own, Waits,
      Submit, Resubmit, ClientStep, Publish, SaveEvaluating, BumpSubmitted, SaveFailed,
      SaveResubmitted, PublishAgain, RequestFails, PublishFails, PublishAgainFails, Answer,
      Hold, Goto, locals
<1>3. /\ \A i \in Invoices : /\ Submit(c, i) => pc'[c] = "publish"
                             /\ Resubmit(c, i) => pc'[c] = "save_resubmitted"
      /\ Publish(c) => pc'[c] = "save_evaluating"
      /\ PublishFails(c) => pc'[c] = "save_failed"
      /\ SaveEvaluating(c) => pc'[c] = "bump_submitted"
      /\ SaveResubmitted(c) => pc'[c] = "publish_again"
  BY <1>t DEF Submit, Resubmit, Publish, PublishFails, SaveEvaluating, SaveResubmitted, Goto
<1>4. (BumpSubmitted(c) \/ SaveFailed(c) \/ PublishAgain(c) \/ RequestFails(c)
         \/ PublishAgainFails(c)) => pc'[c] = "idle"
  BY <1>t DEF BumpSubmitted, SaveFailed, PublishAgain, RequestFails, PublishAgainFails, Answer, Goto
<1>5. Downstream(FALSE) \/ Downstream(TRUE) \/ UNCHANGED vars => Waits(c)
  BY DEF Downstream, vars, locals, Own, Waits
<1>6. Crash => pc'[c] = "idle"
  BY DEF Crash, Workers
<1> QED BY <1>1, <1>2, <1>3, <1>4, <1>5, <1>6 DEF Next, ClientStep

\* Who is about to publish a resubmission has just written it, or waited.
LEMMA PutKinds ==
  ASSUME TypeInv, [Next]_vars, NEW c \in Clients, pc'[c] = "publish_again"
  PROVE  \/ SaveResubmitted(c)
         \/ pc[c] = "publish_again" /\ draft'[c] = draft[c] /\ Own(c)' = Own(c)
BY ClientKinds DEF Waits

\* Every step keeps a resubmission that waits for its publish alone.
LEMMA PutStep ==
  ASSUME ResubmissionsDoNotOverlap, TypeInv, StoryInv, BusInv, HandsInv, RecordInv, [Next]_vars,
         NoRepeats'
  PROVE  PutInv'
<1> USE DEF RecordInv
\* Nothing touches the record of a resubmission that waits, and nothing is said of it.
<1>1. ASSUME NEW c \in Clients, pc[c] = "publish_again", pc'[c] = "publish_again"
      PROVE  record'[Own(c)] = record[Own(c)]
  <2>1. /\ HasStatus(Own(c), "evaluating") /\ record[Own(c)].version = draft[c].record.version
        /\ \A m \in sent : ~(m.invoice = Own(c) /\ m.version = draft[c].record.version)
    BY <1>1 DEF PutInv
  <2>2. ASSUME NEW i \in Invoices, NEW r, Writes(i, r), Begins(i, r) \/ TakesOn(i, r)
        PROVE  record'[Own(c)] = record[Own(c)]
    <3>1. Own(c) # i
      BY <2>1, <2>2 DEF Begins, TakesOn, HasStatus
    <3>2. Own(c) \in Invoices
      BY <1>1, DraftTyped
    <3> QED BY <2>2, <3>1, <3>2 DEF Writes
  <2>3. ASSUME NEW d \in Clients, SaveResubmitted(d) PROVE record'[Own(c)] = record[Own(c)]
    <3>1. Writes(Own(d), draft[d].record) /\ pc[d] = "save_resubmitted"
      BY <2>3, SaveResubmittedDoes
    <3>2. Own(c) # Own(d) /\ Own(c) \in Invoices
      BY <1>1, <2>1, <3>1, DraftTyped DEF StoryInv, Relies, HasStatus
    <3> QED BY <3>1, <3>2 DEF Writes
  <2>4. ASSUME NEW h \in Handlers, Update(h), record' # record
        PROVE  record'[Own(c)] = record[Own(c)]
    <3>1. PICK m \in sent : /\ m.version = record[m.invoice].version
                            /\ \E r \in InvoiceRecord : Writes(m.invoice, r)
      BY <2>4, UpdateFinds
    <3>2. Own(c) # m.invoice /\ Own(c) \in Invoices
      BY <1>1, <2>1, <3>1, DraftTyped
    <3> QED BY <3>1, <3>2 DEF Writes
  <2> QED BY <2>2, <2>3, <2>4, RecordKinds
<1>2. ASSUME NEW c \in Clients, pc[c] = "publish_again", pc'[c] = "publish_again",
             NEW m \in sent'
      PROVE  ~(m.invoice = Own(c) /\ m.version = draft[c].record.version)
  <2>1. \A n \in sent : ~(n.invoice = Own(c) /\ n.version = draft[c].record.version)
    BY <1>2 DEF PutInv
  <2>2. ASSUME NEW d \in Clients, Announces(d)
        PROVE  ~(m.invoice = Own(c) /\ m.version = draft[c].record.version)
    <3> DEFINE n == Msg("invoice-submitted", Own(d), draft[d].record.version, None)
    <3>1. n.invoice = Own(d) /\ sent' = sent \cup {n}
      BY <2>2, MsgParts DEF Announces, Broadcast
    <3> HIDE DEF n
    <3>2. Own(d) # Own(c)
      BY <1>2, <2>2, IntakeAssumption DEF Announces, PutInv, StoryInv, Relies, PostPcs, HasStatus
    <3> QED BY <2>1, <3>1, <3>2
  <2>3. ASSUME NEW n \in sent, Replies(n)
        PROVE  ~(m.invoice = Own(c) /\ m.version = draft[c].record.version)
    <3>1. PICK o : sent' = sent \cup {o} /\ Fellow(n, o)
      BY <2>3, DownstreamSays
    <3> QED BY <2>1, <3>1 DEF Fellow
  <2> QED BY <2>1, <2>2, <2>3, Sendings
\* What was just written is new.
<1>3. ASSUME NEW c \in Clients, SaveResubmitted(c)
      PROVE  /\ HasStatus(Own(c), "needs_info") /\ UNCHANGED sent
             /\ Own(c)' = Own(c) /\ draft'[c].record = draft[c].record
             /\ record'[Own(c)] = draft[c].record /\ record'[Own(c)] # None
             /\ draft[c].record.status = "evaluating"
             /\ \A m \in sent : ~(m.invoice = Own(c) /\ m.version = draft[c].record.version)
  <2>1. /\ pc[c] = "save_resubmitted" /\ Own(c) \in Invoices
        /\ draft[c].record \in InvoiceRecord
        /\ Goes(c, "publish_again", draft[c].record) /\ Writes(Own(c), draft[c].record)
        /\ UNCHANGED sent
    BY <1>3, SaveResubmittedDoes
  <2>2. /\ HasStatus(Own(c), "needs_info") /\ draft[c].record.status = "evaluating"
        /\ record[Own(c)].version < draft[c].record.version
    BY <2>1 DEF StoryInv, Relies
  <2>3. record[Own(c)].version \in Nat /\ draft[c].record.version \in Nat
    BY <2>1, <2>2, IntakeAssumption DEF HasStatus, TypeInv, TypeOK, InvoiceRecord, Versions
  <2>4. \A m \in sent : m.version \in Nat /\ (m.invoice = Own(c) => m.version <= record[Own(c)].version)
    BY DEF TypeInv, TypeOK, Message, Versions, SentKnown
  <2> QED BY <2>1, <2>2, <2>3, <2>4, IntakeAssumption DEF Goes, Writes
<1>4. ASSUME NEW c \in Clients, pc'[c] = "publish_again"
      PROVE  /\ HasStatus(Own(c), "evaluating")'
             /\ record'[Own(c)'].version = draft'[c].record.version
             /\ \A m \in sent' : ~(m.invoice = Own(c)' /\ m.version = draft'[c].record.version)
  <2>1. CASE SaveResubmitted(c)
    BY <1>3, <2>1 DEF HasStatus
  <2>2. CASE pc[c] = "publish_again" /\ draft'[c] = draft[c] /\ Own(c)' = Own(c)
    BY <1>1, <1>2, <1>4, <2>2 DEF PutInv, HasStatus
  <2> QED BY <1>4, <2>1, <2>2, PutKinds
<1>5. ASSUME NEW c \in Clients, NEW d \in Clients,
             pc'[c] = "publish_again", pc'[d] = "publish_again", Own(c)' = Own(d)'
      PROVE  c = d
  <2>1. ASSUME NEW a \in Clients, NEW b \in Clients, SaveResubmitted(a), Own(a)' = Own(b)',
               pc'[b] = "publish_again"
        PROVE  a = b
    <3>1. SUFFICES ASSUME a # b PROVE FALSE
      OBVIOUS
    <3>2. pc[a] = "save_resubmitted" /\ HasStatus(Own(a), "needs_info") /\ Own(a)' = Own(a)
      BY <1>3, <2>1, SaveResubmittedDoes
    <3>3. CASE SaveResubmitted(b)
      <4>1. pc[b] = "save_resubmitted" /\ Own(b)' = Own(b)
        BY <1>3, <3>3, SaveResubmittedDoes
      <4>2. Own(a) = Own(b)
        BY <2>1, <3>2, <4>1
      <4> QED BY <3>1, <3>2, <4>1, <4>2 DEF ResubmissionsDoNotOverlap
    <3>4. CASE pc[b] = "publish_again" /\ Own(b)' = Own(b)
      BY <2>1, <3>2, <3>4 DEF PutInv, HasStatus
    <3> QED BY <2>1, <3>3, <3>4, PutKinds
  <2> QED BY <1>5, <2>1, PutKinds DEF PutInv
<1> QED BY <1>4, <1>5 DEF PutInv

\* An event is what its topic and its outcome say of a submission.
LEMMA MsgWhole ==
  ASSUME NEW m \in Message, m.copy = 0
  PROVE  m = Msg(m.topic, m.invoice, m.version, m.outcome)
BY DEF Message, Msg

\* Every step keeps a status traced back to an event about the stored submission.
LEMMA TracedStep ==
  ASSUME ResubmissionsDoNotOverlap, TypeInv, StoryInv, BusInv, HandsInv, RecordInv,
         [Next]_vars, NEW i \in Invoices
  PROVE  Traced(i)'
<1> USE DEF RecordInv
<1>1. ASSUME record'[i] = record[i] PROVE Traced(i)'
  <2>1. \A t, o : Said(i, t, o) => Said(i, t, o)'
    BY <1>1, SentGrows DEF Said
  <2>2. Traced(i)
    OBVIOUS
  <2>3. HasStatus(i, "pending_approval") => Escalated(i, record[i].version)'
    BY <1>1, <2>2, ClosedStays DEF Traced
  <2>4. HasStatus(i, "needs_info") => Closed(i, record[i].version)'
    BY <1>1, <2>2, ClosedStays DEF Traced
  <2>5. ApprovedBy(i) => ApprovedBy(i)'
    BY <1>1, <2>1 DEF ApprovedBy
  <2>6. record[i] # None => Earned(i)'
    BY <1>1, <2>1, <2>2, <2>5 DEF Earned, Traced
  <2> QED BY <1>1, <2>3, <2>4, <2>6 DEF Traced, HasStatus
\* What a request writes has no verdict yet.
<1>2. ASSUME record'[i].status \in {"submitted", "evaluating", "submit_failed"} PROVE Traced(i)'
  BY <1>2 DEF Traced, HasStatus, Earned
<1>3. ASSUME NEW j \in Invoices, NEW r \in InvoiceRecord, Writes(j, r), Begins(j, r) \/ TakesOn(j, r)
      PROVE  Traced(i)'
  <2>1. CASE j = i
    BY <1>2, <1>3, <2>1 DEF Writes, Begins, TakesOn
  <2>2. CASE j # i
    BY <1>1, <1>3, <2>2 DEF Writes
  <2> QED BY <2>1, <2>2
<1>4. ASSUME NEW c \in Clients, SaveResubmitted(c) PROVE Traced(i)'
  <2>1. Writes(Own(c), draft[c].record) /\ draft[c].record.status = "evaluating"
    BY <1>4, SaveResubmittedDoes DEF StoryInv, Relies
  <2>2. CASE Own(c) = i
    BY <1>2, <2>1, <2>2 DEF Writes
  <2>3. CASE Own(c) # i
    BY <1>1, <2>1, <2>3 DEF Writes
  <2> QED BY <2>2, <2>3
\* What an event writes goes back to it, and to what the record went back to before.
<1>5. ASSUME NEW h \in Handlers, Update(h), record' # record PROVE Traced(i)'
  <2>1. PICK m \in sent :
           /\ Worded(m) /\ m.topic # "invoice-submitted" /\ m.invoice \in Invoices
           /\ Used(m)' /\ m.version = record[m.invoice].version
           /\ record[m.invoice] # None /\ Expected(m, record[m.invoice].status)
           /\ \E r \in InvoiceRecord :
                /\ Writes(m.invoice, r) /\ r.version = record[m.invoice].version
                /\ r.status = Target(m) /\ r.decided_by = DecidedBy(m, record[m.invoice])
    BY <1>5, UpdateFinds
  <2>2. PICK r \in InvoiceRecord :
           /\ Writes(m.invoice, r) /\ r.version = record[m.invoice].version
           /\ r.status = Target(m) /\ r.decided_by = DecidedBy(m, record[m.invoice])
    BY <2>1
  <2>3. CASE m.invoice # i
    BY <1>1, <2>2, <2>3 DEF Writes
  <2>4. CASE m.invoice = i
    <3>0. PICK v : v = record[i].version
      OBVIOUS
    <3>1. /\ record'[i] = r /\ r # None /\ r.version = v
          /\ r.status = Target(m) /\ r.decided_by = DecidedBy(m, record[i])
          /\ m.version = v /\ Expected(m, record[i].status) /\ record[i] # None
      BY <2>1, <2>2, <2>4, <3>0, IntakeAssumption DEF Writes
    <3>2. m = Msg(m.topic, i, v, m.outcome) /\ m \in sent'
      BY <2>1, <2>4, <3>1, MsgWhole, SentGrows DEF Worded, BusInv
    <3>3. Said(i, m.topic, m.outcome)'
      BY <2>4, <3>1, <3>2 DEF Said
    <3>4. Happened(m.topic, i, v, m.outcome)'
      BY <2>1, <3>2 DEF Happened
    <3>5. Traced(i)
      OBVIOUS
    <3>6. CASE m.topic = "decision-made"
      <4>1. m.outcome \in Routes /\ r.decided_by = IF m.outcome = "human_review" THEN None ELSE "router"
        BY <2>1, <3>1, <3>6 DEF Worded, DecidedBy
      <4>2. CASE m.outcome = "auto_approve"
        <5>1. r.status = "approved" /\ r.decided_by = "router"
          BY <3>1, <3>6, <4>1, <4>2 DEF Target
        <5> QED BY <3>1, <3>3, <3>6, <4>2, <5>1 DEF Traced, Earned, ApprovedBy, HasStatus
      <4>3. CASE m.outcome = "reject"
        <5>1. r.status = "rejected"
          BY <3>1, <3>6, <4>3 DEF Target
        <5> QED BY <3>1, <3>3, <3>6, <4>3, <5>1 DEF Traced, Earned, HasStatus
      <4>4. CASE m.outcome = "duplicate"
        <5>1. r.status = "duplicate"
          BY <3>1, <3>6, <4>4 DEF Target
        <5> QED BY <3>1, <3>3, <3>6, <4>4, <5>1 DEF Traced, Earned, HasStatus
      <4>5. CASE m.outcome = "human_review"
        <5>1. r.status = "pending_approval"
          BY <3>1, <3>6, <4>5 DEF Target
        <5>2. Escalated(i, v)'
          BY <3>4, <3>6, <4>5 DEF Escalated
        <5>3. Escalated(i, record[i].version)'
          BY <3>1, <5>2 DEF Escalated, Happened
        <5> QED BY <3>1, <3>3, <3>6, <4>5, <5>1, <5>3 DEF Traced, Earned, HasStatus
      <4> QED BY <4>1, <4>2, <4>3, <4>4, <4>5 DEF Routes
    <3>7. CASE m.topic = "approval-resolved"
      <4>1. /\ m.outcome \in Verdicts /\ record[i].status = "pending_approval"
            /\ m.outcome # "needs_info" => r.decided_by = "approver"
        BY <2>1, <3>1, <3>7 DEF Worded, DecidedBy, Expected
      <4>2. CASE m.outcome = "approved"
        <5>1. r.status = "approved" /\ r.decided_by = "approver"
          BY <3>1, <3>7, <4>1, <4>2 DEF Target
        <5> QED BY <3>1, <3>3, <3>7, <4>2, <5>1 DEF Traced, Earned, ApprovedBy, HasStatus
      <4>3. CASE m.outcome = "rejected"
        <5>1. r.status = "rejected"
          BY <3>1, <3>7, <4>3 DEF Target
        <5> QED BY <3>1, <3>3, <3>7, <4>3, <5>1 DEF Traced, Earned, HasStatus
      <4>4. CASE m.outcome = "needs_info"
        <5>1. r.status = "needs_info"
          BY <3>1, <3>7, <4>4 DEF Target
        <5>2. Escalated(i, v)
          BY <3>0, <3>1, <3>5, <4>1 DEF Traced, HasStatus
        <5>3. Escalated(i, v)'
          BY <5>2, ClosedStays
        <5>4. Closed(i, v)'
          BY <3>4, <3>7, <4>4, <5>3 DEF Closed
        <5>5. Closed(i, record[i].version)'
          BY <3>1, <5>4 DEF Closed, Escalated, Happened
        <5> QED BY <3>1, <3>3, <3>7, <4>4, <5>1, <5>5 DEF Traced, Earned, HasStatus
      <4> QED BY <4>1, <4>2, <4>3, <4>4 DEF Verdicts
    <3>8. CASE m.topic \in Payments
      <4>1. /\ m.outcome = None /\ record[i].status = "approved"
            /\ r.decided_by = record[i].decided_by
        BY <2>1, <3>1, <3>8 DEF Worded, DecidedBy, Expected, Payments
      <4>2. r.status = IF m.topic = "payment-completed" THEN "paid" ELSE "payment_failed"
        <5>1. m.outcome \notin Routes \cup Verdicts
          BY <4>1, IntakeAssumption
        <5> QED BY <3>1, <3>8, <5>1 DEF Target, Payments, Routes, Verdicts
      <4>3. ApprovedBy(i)
        BY <3>1, <3>5, <4>1 DEF Traced, Earned
      <4>4. ApprovedBy(i)'
        BY <3>0, <3>1, <4>1, <4>3, SentGrows DEF ApprovedBy, Said
      <4> QED BY <3>1, <3>3, <3>8, <4>1, <4>2, <4>4 DEF Traced, Earned, HasStatus, Payments
    <3> QED BY <2>1, <3>6, <3>7, <3>8 DEF Worded, Message, Payments
  <2> QED BY <2>3, <2>4
<1> QED BY <1>1, <1>3, <1>4, <1>5, RecordKinds

\* The invariant that every theorem below rests on.
TaleInv == StoryInv /\ BusInv /\ HandsInv /\ RecordInv

\* What the events and the records say of each other holds throughout; much of it as
\* long as no service repeats itself.
LEMMA TaleIsKept ==
  Spec /\ []ResubmissionsDoNotOverlap => [](StoryInv /\ HandsInv /\ (NoRepeats => TaleInv))
<1> DEFINE Kept == StoryInv /\ HandsInv /\ (NoRepeats => TaleInv)
<1>1. Init => Kept
  BY StoryInit
  DEF Init, TaleInv, BusInv, HandsInv, RecordInv, SentKnown, PutInv, Traced, HasStatus, Workers
<1>2. TypeInv /\ TypeInv' /\ ResubmissionsDoNotOverlap /\ Kept /\ [Next]_vars => Kept'
  <2> SUFFICES ASSUME TypeInv, TypeInv', ResubmissionsDoNotOverlap, Kept, [Next]_vars
               PROVE  Kept'
    OBVIOUS
  <2>1. StoryInv' /\ HandsInv'
    BY StoryStep, HandsStep
  <2>2. ASSUME NoRepeats' PROVE BusInv' /\ RecordInv'
    <3>1. TaleInv
      BY <2>2, RepeatsStay
    <3> QED BY <2>2, <3>1, BusStep, SentKnownStep, PutStep, TracedStep DEF TaleInv, RecordInv
  <2> QED BY <2>1, <2>2 DEF TaleInv
<1> QED BY <1>1, <1>2, TypeInvariant, PTL DEF Spec

\* A status, and who is named as having decided, go back to events about the very
\* submission that is stored, in whatever order the events arrive and whatever fails in
\* intake, as long as the other services answer once each (that is the hypothesis of
\* StatusIsEarned), and no two resubmissions of one invoice have both asked and not yet
\* written (status.py:15-63, api.py:91-110).
THEOREM StatusesAreEarned == Spec /\ []ResubmissionsDoNotOverlap => []StatusIsEarned
<1>1. (NoRepeats => TaleInv) => StatusIsEarned
  BY DEF NoRepeats, TaleInv, RecordInv, Traced, Earned, StatusIsEarned
<1> QED BY <1>1, TaleIsKept, PTL

--------------------------------------------------------------------------------
(* The pace of the events: what was published is still under way or marked,  *)
(* and is published in the order in which the story goes.                    *)

\* A verdict was asked for, and an invoice is paid for once.
CauseInv ==
  /\ \A m \in sent : m.topic = "approval-resolved" =>
       \E n \in sent : n.topic = "decision-made" /\ n.outcome = "human_review" /\ Fellow(m, n)
  /\ \A m, n \in sent : m.topic \in Payments /\ n.topic \in Payments /\ m.invoice = n.invoice => m = n

\* An event is under way until it is marked, and while a handler holds it.
MarkInv ==
  /\ processed \subseteq sent /\ sent \ unacked \subseteq processed
  /\ \A h \in Handlers : pc[h] # "idle" => event[h] \in unacked
  /\ \A h \in Handlers : pc[h] \in {"update", "bump", "ack"} => event[h] \in processed

\* Nothing is said of an invoice before its submission is published.
FreshInv == \A c \in Clients : pc[c] = "publish" => \A m \in sent : m.invoice # Own(c)

\* Every step keeps each answer after what it answers.
LEMMA CauseStep ==
  ASSUME TypeInv, CauseInv, [Next]_vars, NoRepeats'
  PROVE  CauseInv'
<1>1. CASE UNCHANGED sent
  BY <1>1 DEF CauseInv
<1>2. ASSUME NEW c \in Clients, Announces(c) PROVE CauseInv'
  <2> DEFINE n == Msg("invoice-submitted", Own(c), draft[c].record.version, None)
  <2>1. n.topic = "invoice-submitted" /\ sent' = sent \cup {n}
    BY <1>2, MsgParts DEF Announces, Broadcast
  <2> HIDE DEF n
  <2> QED BY <2>1 DEF CauseInv, Payments
<1>3. ASSUME NEW m \in sent, Replies(m) PROVE CauseInv'
  <2>1. PICK n :
           /\ sent' = sent \cup {n} /\ Fellow(m, n) /\ Fellow(n, m)
           /\ \/ /\ n.topic = "decision-made" /\ m.topic = "invoice-submitted"
                 /\ ~Answered({"decision-made"}, n.invoice, n.version)
              \/ /\ n.topic = "approval-resolved"
                 /\ m.topic = "decision-made" /\ m.outcome = "human_review"
                 /\ ~Answered({"approval-resolved"}, n.invoice, n.version)
              \/ /\ n.topic \in Payments /\ m.outcome \in {"auto_approve", "approved"}
                 /\ \A v \in Versions : ~Answered(Payments, n.invoice, v)
    BY <1>3, DownstreamSays
  <2>2. \A k \in sent' : k.topic = "approval-resolved" =>
          \E l \in sent' : l.topic = "decision-made" /\ l.outcome = "human_review" /\ Fellow(k, l)
    <3>1. ASSUME n.topic = "approval-resolved"
          PROVE  m.topic = "decision-made" /\ m.outcome = "human_review"
      BY <2>1, <3>1 DEF Payments
    <3> QED BY <2>1, <3>1 DEF CauseInv
  <2>3. ASSUME n.topic \in Payments, NEW k \in sent, k.topic \in Payments PROVE k.invoice # n.invoice
    <3>1. k.version \in Versions
      BY DEF TypeInv, TypeOK, Message
    <3>2. \A v \in Versions : ~Answered(Payments, n.invoice, v)
      BY <2>1, <2>3 DEF Payments
    <3> QED BY <2>3, <3>1, <3>2 DEF Answered
  <2>4. \A k, l \in sent' : k.topic \in Payments /\ l.topic \in Payments /\ k.invoice = l.invoice => k = l
    BY <2>1, <2>3 DEF CauseInv
  <2> QED BY <2>2, <2>4 DEF CauseInv
<1> QED BY <1>1, <1>2, <1>3, Sendings

\* How the bus may change: one more event, or one less to deliver.
LEMMA BusKinds ==
  ASSUME TypeInv, [Next]_vars
  PROVE  \/ sent \subseteq sent' /\ unacked \subseteq unacked' /\ sent' \ unacked' \subseteq sent \ unacked
         \/ \E h \in Handlers : /\ Ack(h) /\ pc[h] = "ack" /\ pc'[h] = "idle"
                                /\ UNCHANGED <<sent, processed>>
                                /\ unacked' = unacked \ {event[h]}
<1> DEFINE Grows == /\ sent \subseteq sent' /\ unacked \subseteq unacked'
                    /\ sent' \ unacked' \subseteq sent \ unacked
<1>1. ((\E n : Broadcast(n)) => Grows) /\ (UNCHANGED bus => Grows)
  BY DEF Broadcast, bus
<1>2. ASSUME NEW h \in Handlers,
             \/ \E m \in unacked : Deliver(h, m)
             \/ FirstTime(h) \/ Update(h) \/ Bump(h) \/ Raise(h)
      PROVE  UNCHANGED bus
  BY <1>2 DEF Deliver, FirstTime, Update, Bump, Raise
<1>3. ASSUME NEW h \in Handlers, Ack(h)
      PROVE  /\ pc[h] = "ack" /\ pc'[h] = "idle" /\ UNCHANGED <<sent, processed>>
             /\ unacked' = unacked \ {event[h]}
  BY <1>3, HandlerSteps DEF Ack, stores
<1>4. ASSUME NEW c \in Clients,
             Publish(c) \/ PublishAgain(c) \/ PublishFails(c) \/ PublishAgainFails(c)
      PROVE  (\E n : Broadcast(n)) \/ UNCHANGED bus
  BY <1>4 DEF Publish, PublishAgain, PublishFails, PublishAgainFails, Ambiguous
<1>5. ASSUME NEW c \in Clients,
             \/ \E i \in Invoices : Submit(c, i) \/ Resubmit(c, i)
             \/ SaveEvaluating(c) \/ BumpSubmitted(c) \/ SaveFailed(c) \/ SaveResubmitted(c)
             \/ RequestFails(c)
      PROVE  UNCHANGED bus
  BY <1>5 DEF Submit, Resubmit, SaveEvaluating, BumpSubmitted, SaveFailed, SaveResubmitted,
              RequestFails
<1>6. ASSUME Downstream(FALSE) \/ Downstream(TRUE) PROVE Grows
  <2>1. \E n : Broadcast(n)
    BY <1>6, RepliesWorded DEF Downstream, Replies
  <2> QED BY <1>1, <2>1
<1>7. ASSUME Crash \/ UNCHANGED vars PROVE Grows
  BY <1>1, <1>7 DEF Crash, vars
<1> HIDE DEF Grows
<1>8. ASSUME NEW h \in Handlers,
             (\E m \in unacked : Deliver(h, m)) \/ HandlerStep(h) \/ Raise(h)
      PROVE  Grows \/ Ack(h)
  BY <1>1, <1>2, <1>8 DEF HandlerStep
<1>9. ASSUME NEW c \in Clients,
             \/ \E i \in Invoices : Submit(c, i) \/ Resubmit(c, i)
             \/ ClientStep(c) \/ RequestFails(c) \/ PublishFails(c) \/ PublishAgainFails(c)
      PROVE  Grows
  <2>1. (\E n : Broadcast(n)) \/ UNCHANGED bus
    <3>1. CASE Publish(c) \/ PublishAgain(c) \/ PublishFails(c) \/ PublishAgainFails(c)
      BY <1>4, <3>1
    <3>2. CASE \/ \E i \in Invoices : Submit(c, i) \/ Resubmit(c, i)
               \/ SaveEvaluating(c) \/ BumpSubmitted(c) \/ SaveFailed(c) \/ SaveResubmitted(c)
               \/ RequestFails(c)
      BY <1>5, <3>2
    <3> QED BY <1>9, <3>1, <3>2 DEF ClientStep
  <2> QED BY <1>1, <2>1
<1>10. Grows \/ \E h \in Handlers : Ack(h)
  BY <1>6, <1>7, <1>8, <1>9 DEF Next
<1> QED BY <1>3, <1>10 DEF Grows

\* What is marked is what a handler held.
LEMMA MarkKinds ==
  ASSUME TypeInv, [Next]_vars, NEW m \in processed'
  PROVE  \/ m \in processed
         \/ \E h \in Handlers : (FirstTime(h) \/ Raise(h)) /\ pc[h] = "first_time" /\ m = event[h]
<1>1. ASSUME NEW h \in Handlers,
             (\E n \in unacked : Deliver(h, n)) \/ HandlerStep(h) \/ Raise(h)
      PROVE  \/ m \in processed
             \/ (FirstTime(h) \/ Raise(h)) /\ pc[h] = "first_time" /\ m = event[h]
  BY <1>1 DEF Deliver, HandlerStep, FirstTime, Update, Bump, Ack, Raise, stores
<1>2. ASSUME NEW c \in Clients,
             \/ \E i \in Invoices : Submit(c, i) \/ Resubmit(c, i)
             \/ ClientStep(c) \/ RequestFails(c) \/ PublishFails(c) \/ PublishAgainFails(c)
      PROVE  m \in processed
  BY <1>2
  DEF Submit, Resubmit, ClientStep, Publish, SaveEvaluating, BumpSubmitted, SaveFailed,
      SaveResubmitted, PublishAgain, RequestFails, PublishFails, PublishAgainFails, stores
<1> QED BY <1>1, <1>2 DEF Next, Downstream, Crash, stores, vars

\* Every step keeps the marks of what was handled.
LEMMA MarkStep ==
  ASSUME TypeInv, HandsInv, MarkInv, [Next]_vars
  PROVE  MarkInv'
<1>1. processed' \subseteq sent'
  <2>1. ASSUME NEW m \in processed' PROVE m \in sent
    BY <2>1, MarkKinds, EventTyped DEF MarkInv
  <2> QED BY <2>1, SentGrows
<1>2. sent' \ unacked' \subseteq processed'
  <2>1. \A h \in Handlers : pc[h] = "ack" => event[h] \in processed
    BY DEF MarkInv
  <2> QED BY <2>1, BusKinds, MarksStay DEF MarkInv
<1>3. ASSUME NEW h \in Handlers, pc'[h] # "idle" PROVE event'[h] \in unacked'
  <2>1. CASE pc[h] # "idle" /\ event'[h] = event[h]
    <3>1. event[h] \in unacked
      BY <2>1 DEF MarkInv
    <3>2. ASSUME NEW g \in Handlers, pc[g] = "ack", pc'[g] = "idle" PROVE event[g] # event[h]
      BY <1>3, <2>1, <3>2 DEF HandsInv
    <3> QED BY <2>1, <3>1, <3>2, BusKinds
  <2>2. ASSUME NEW m \in unacked, Deliver(h, m) PROVE event'[h] \in unacked'
    <3>1. unacked' = unacked
      BY <2>2 DEF Deliver, bus
    <3> QED BY <2>2, <3>1, HandlerSteps
  <2> QED BY <1>3, <2>1, <2>2, HandlerKinds, HandlerSteps DEF Rests
<1>4. ASSUME NEW h \in Handlers, pc'[h] \in {"update", "bump", "ack"} PROVE event'[h] \in processed'
  BY <1>4, HandlerKinds, HandlerSteps, MarksStay DEF Rests, MarkInv
<1> QED BY <1>1, <1>2, <1>3, <1>4 DEF MarkInv

\* Every step keeps a POST that has yet to publish the first to speak of its invoice.
LEMMA FreshStep ==
  ASSUME TypeInv, StoryInv, SentKnown, PutInv, FreshInv, [Next]_vars, NoRepeats'
  PROVE  FreshInv'
<1> SUFFICES ASSUME NEW c \in Clients, pc'[c] = "publish", NEW m \in sent'
             PROVE  m.invoice # Own(c)'
  BY DEF FreshInv
<1>1. ASSUME NEW i \in Invoices, Submit(c, i) PROVE m.invoice # Own(c)'
  <2>1. record[i] = None /\ Own(c)' = i
    BY <1>1, SubmitDoes
  <2>2. sent' = sent
    BY <1>1 DEF Submit, bus
  <2> QED BY <2>1, <2>2 DEF SentKnown
<1>2. CASE pc[c] = "publish" /\ Waits(c)
  <2>1. \A n \in sent : n.invoice # Own(c)
    BY <1>2 DEF FreshInv
  <2>2. ASSUME NEW d \in Clients, Announces(d) PROVE m.invoice # Own(c)
    <3> DEFINE n == Msg("invoice-submitted", Own(d), draft[d].record.version, None)
    <3>1. n.invoice = Own(d) /\ sent' = sent \cup {n} /\ d # c
      BY <1>2, <2>2, MsgParts DEF Announces, Broadcast, Waits
    <3> HIDE DEF n
    <3>2. HasStatus(Own(c), "submitted")
      BY <1>2, DraftTyped, IntakeAssumption DEF StoryInv, Relies, PostPcs, HasStatus
    <3>3. Own(d) # Own(c)
      BY <1>2, <2>2, <3>1, <3>2 DEF Announces, StoryInv, PostPcs, PutInv, HasStatus
    <3> QED BY <2>1, <3>1, <3>3
  <2>3. ASSUME NEW k \in sent, Replies(k) PROVE m.invoice # Own(c)
    <3>1. PICK n : sent' = sent \cup {n} /\ Fellow(k, n)
      BY <2>3, DownstreamSays
    <3> QED BY <2>1, <3>1 DEF Fellow
  <2>4. Own(c)' = Own(c)
    BY <1>2 DEF Waits
  <2> QED BY <2>1, <2>2, <2>3, <2>4, Sendings
<1> QED BY <1>1, <1>2, ClientKinds DEF Waits

\* The position of an event: its submission first, then its topic.
LEMMA RankPlaces ==
  ASSUME NEW m \in Message
  PROVE  /\ m.version \in Nat /\ Rank(m) \in Nat
         /\ 4 * m.version <= Rank(m) /\ Rank(m) <= 4 * m.version + 3
         /\ m.topic = "invoice-submitted" => Rank(m) = 4 * m.version
         /\ m.topic = "decision-made" => Rank(m) = 4 * m.version + 1
         /\ m.topic = "approval-resolved" => Rank(m) = 4 * m.version + 2
         /\ m.topic \in Payments => Rank(m) = 4 * m.version + 3
         /\ m.topic \in {"invoice-submitted", "decision-made", "approval-resolved"} \cup Payments
<1>1. m.version \in Nat
      /\ m.topic \in {"invoice-submitted", "decision-made", "approval-resolved"} \cup Payments
  BY DEF Message, Versions, Payments
<1>2. m.topic = "invoice-submitted" => Rank(m) = 4 * m.version
  BY <1>1 DEF Rank
<1>3. m.topic = "decision-made" => Rank(m) = 4 * m.version + 1
  BY <1>1 DEF Rank
<1>4. m.topic = "approval-resolved" => Rank(m) = 4 * m.version + 2
  BY <1>1 DEF Rank
<1>5. m.topic \in Payments => Rank(m) = 4 * m.version + 3
  BY <1>1 DEF Rank, Payments
<1> QED BY <1>1, <1>2, <1>3, <1>4, <1>5

\* What follows a decision was decided, one way or the other.
LEMMA AnswersFollow ==
  ASSUME TypeInv, BusInv, CauseInv, NEW m \in sent
  PROVE  /\ m.topic = "approval-resolved" =>
              \E d \in sent : d.topic = "decision-made" /\ d.outcome = "human_review" /\ Fellow(m, d)
         /\ m.topic \in Payments =>
              \E a \in sent : /\ a.topic \in Answers /\ a.outcome \in {"auto_approve", "approved"}
                              /\ Fellow(m, a)
         /\ m.topic \in Payments \cup {"approval-resolved"} =>
              \E d \in sent : d.topic = "decision-made" /\ Fellow(m, d)
<1>1. ASSUME NEW n \in sent, n.topic = "approval-resolved"
      PROVE  \E d \in sent : d.topic = "decision-made" /\ d.outcome = "human_review" /\ Fellow(n, d)
  BY <1>1 DEF CauseInv
<1>2. ASSUME m.topic \in Payments
      PROVE  \E a \in sent : /\ a.topic \in Answers /\ a.outcome \in {"auto_approve", "approved"}
                             /\ Fellow(m, a)
  <2>1. PICK a \in sent : a.outcome \in {"auto_approve", "approved"} /\ Fellow(m, a)
    BY <1>2 DEF BusInv
  <2>2. a.topic \notin Answers => a.outcome = None
    BY DEF TypeInv, Holding, Worded, Message, BusInv, Answers
  <2>3. None \notin {"auto_approve", "approved"}
    BY IntakeAssumption DEF Routes, Verdicts
  <2> QED BY <2>1, <2>2, <2>3
<1>3. ASSUME m.topic \in Payments
      PROVE  \E d \in sent : d.topic = "decision-made" /\ Fellow(m, d)
  <2>1. PICK a \in sent : a.topic \in Answers /\ Fellow(m, a)
    BY <1>2, <1>3
  <2> QED BY <1>1, <2>1 DEF Answers, Fellow
<1> QED BY <1>1, <1>2, <1>3

\* Events of an invoice are published in the order of their ranks.
LEMMA PublishedInOrder ==
  ASSUME TypeInv, TypeInv', BusInv, CauseInv, SentKnown, PutInv, FreshInv, [Next]_vars, NoRepeats',
         NEW n \in unacked' \ unacked, NEW m \in sent, m.invoice = n.invoice
  PROVE  Rank(m) <= Rank(n)
<1>m. /\ m.version \in Nat /\ Rank(m) \in Nat /\ m \in Message
      /\ 4 * m.version <= Rank(m) /\ Rank(m) <= 4 * m.version + 3
  BY RankPlaces DEF TypeInv, TypeOK
<1>n. /\ n.version \in Nat /\ 4 * n.version <= Rank(n) /\ Rank(n) <= 4 * n.version + 3
      /\ Rank(n) \in Nat
  <2>1. n \in Message
    BY DEF TypeInv, TypeOK
  <2> QED BY <2>1, RankPlaces
<1>1. ASSUME NEW c \in Clients, Announces(c) PROVE Rank(m) <= Rank(n)
  <2> DEFINE k == Msg("invoice-submitted", Own(c), draft[c].record.version, None)
  <2>1. k.invoice = Own(c) /\ k.version = draft[c].record.version /\ unacked' = unacked \cup {k}
    BY <1>1, MsgParts DEF Announces, Broadcast
  <2> HIDE DEF k
  <2>2. n.invoice = Own(c) /\ n.version = draft[c].record.version
    BY <2>1
  <2>3. pc[c] = "publish_again"
    BY <1>1, <2>2 DEF Announces, FreshInv
  <2>4. m.version <= n.version /\ m.version # n.version
    BY <2>2, <2>3 DEF PutInv, SentKnown, HasStatus
  <2> QED BY <1>m, <1>n, <2>4
<1>2. ASSUME NEW k \in sent, Replies(k) PROVE Rank(m) <= Rank(n)
  <2>1. /\ Fellow(k, n) /\ Fellow(n, k)
        /\ \/ /\ n.topic = "decision-made" /\ k.topic = "invoice-submitted"
              /\ ~Answered({"decision-made"}, n.invoice, n.version)
           \/ /\ n.topic = "approval-resolved"
              /\ k.topic = "decision-made" /\ k.outcome = "human_review"
              /\ ~Answered({"approval-resolved"}, n.invoice, n.version)
           \/ n.topic \in Payments /\ k.outcome \in {"auto_approve", "approved"}
    <3>1. PICK o :
            /\ unacked' = unacked \cup {o} /\ Fellow(k, o) /\ Fellow(o, k)
            /\ \/ /\ o.topic = "decision-made" /\ k.topic = "invoice-submitted"
                  /\ ~Answered({"decision-made"}, o.invoice, o.version)
               \/ /\ o.topic = "approval-resolved"
                  /\ k.topic = "decision-made" /\ k.outcome = "human_review"
                  /\ ~Answered({"approval-resolved"}, o.invoice, o.version)
               \/ o.topic \in Payments /\ k.outcome \in {"auto_approve", "approved"}
      BY <1>2, DownstreamSays
    <3>2. o = n
      BY <3>1
    <3> QED BY <3>1, <3>2
  \* A later submission means that this one was closed.
  <2>2. CASE n.version < m.version
    <3>1. record[m.invoice] # None /\ m.version <= record[m.invoice].version
          /\ record[m.invoice].version \in Nat
      BY DEF SentKnown, TypeInv, TypeOK, Message, InvoiceRecord, Versions
    <3>2. k.version < record[k.invoice].version /\ k.invoice = n.invoice /\ k.version = n.version
      BY <1>m, <1>n, <2>1, <2>2, <3>1 DEF Fellow
    <3>3. Closed(n.invoice, n.version)
      BY <3>2 DEF SentKnown
    <3>4. PICK d \in sent, a \in sent :
            /\ d.topic = "decision-made" /\ d.invoice = n.invoice /\ d.version = n.version
            /\ a.topic = "approval-resolved" /\ a.invoice = n.invoice /\ a.version = n.version
            /\ \A l \in sent : l.invoice = n.invoice /\ l.version = n.version =>
                 l.outcome \notin {"auto_approve", "approved"}
      BY <3>3, ClosedIsOver
    <3> QED BY <2>1, <3>2, <3>4 DEF Answered
  <2>3. CASE m.version = n.version
    <3>1. Fellow(m, n) /\ Fellow(n, m) /\ Fellow(m, k)
      BY <2>1, <2>3 DEF Fellow
    <3>2. CASE n.topic = "decision-made"
      <4>1. ~Answered({"decision-made"}, n.invoice, n.version)
        BY <2>1, <3>2 DEF Payments
      <4>2. m.topic \notin Payments \cup {"approval-resolved"}
        BY <3>1, <4>1, AnswersFollow DEF Answered, Fellow
      <4>3. Rank(m) <= 4 * m.version + 1
        BY <1>m, <4>2, RankPlaces
      <4>4. Rank(n) = 4 * n.version + 1
        BY <1>n, <3>2 DEF Rank
      <4> QED BY <1>m, <1>n, <2>3, <4>3, <4>4
    <3>3. CASE n.topic = "approval-resolved"
      <4>1. /\ ~Answered({"approval-resolved"}, n.invoice, n.version)
            /\ k.topic = "decision-made" /\ k.outcome = "human_review"
        BY <2>1, <3>3 DEF Payments
      <4>2. ASSUME m.topic \in Payments PROVE FALSE
        <5>1. PICK a \in sent : /\ a.topic \in Answers /\ a.outcome \in {"auto_approve", "approved"}
                                /\ Fellow(m, a)
          BY <4>2, AnswersFollow
        <5>2. a.topic # "approval-resolved"
          BY <3>1, <4>1, <5>1 DEF Answered, Fellow
        <5>3. Fellow(k, a)
          BY <3>1, <5>1 DEF Fellow
        <5> QED BY <4>1, <5>1, <5>2, <5>3 DEF BusInv, Answers
      <4>3. Rank(m) <= 4 * m.version + 2
        BY <1>m, <4>2, RankPlaces
      <4>4. Rank(n) = 4 * n.version + 2
        BY <1>n, <3>3 DEF Rank
      <4> QED BY <1>m, <1>n, <2>3, <4>3, <4>4
    <3>4. CASE n.topic \in Payments
      <4>1. Rank(n) = 4 * n.version + 3
        BY <1>n, <3>4 DEF Rank, Payments
      <4> QED BY <1>m, <1>n, <2>3, <4>1
    <3> QED BY <2>1, <3>2, <3>3, <3>4
  <2>4. CASE m.version < n.version
    BY <1>m, <1>n, <2>4
  <2> QED BY <1>m, <1>n, <2>2, <2>3, <2>4
<1> QED BY <1>1, <1>2, Sendings

--------------------------------------------------------------------------------
(* What holds as long as nothing fails and no event arrives out of turn.     *)

NoFaults == ~Suffered(AllFaultKinds)

\* No submission failed; a submission that was not taken on has its request at work; no
\* handler holds an event of such an invoice, or one that another must precede.
TurnInv ==
  /\ \A c \in Clients : pc[c] # "save_failed"
  /\ \A i \in Invoices : ~HasStatus(i, "submit_failed")
  /\ \A i \in Invoices : HasStatus(i, "submitted") =>
       \E c \in Clients : pc[c] \in {"publish", "save_evaluating"} /\ Own(c) = i
  /\ \A h \in Handlers : pc[h] # "idle" =>
       /\ ~HasStatus(event[h].invoice, "submitted")
       /\ \A n \in unacked : n.invoice = event[h].invoice => Rank(event[h]) <= Rank(n)

\* A fault is not forgotten.
LEMMA FaultsStay ==
  ASSUME TypeInv, [Next]_vars, NoFaults'
  PROVE  NoFaults /\ NoRepeats' /\ \A kind : ~Fault(kind)
<1>0. NoRepeats'
  BY DEF NoFaults, NoRepeats, Suffered, AllFaultKinds
<1>1. ASSUME NEW kind, Fault(kind) PROVE FALSE
  BY <1>1, FaultCounted DEF NoFaults, Suffered
<1>2. UNCHANGED faults
  <2>1. ASSUME NEW h \in Handlers,
               (\E m \in unacked : Deliver(h, m)) \/ HandlerStep(h) \/ Raise(h)
        PROVE  UNCHANGED faults
    BY <1>1, <2>1 DEF Deliver, HandlerStep, FirstTime, Update, Bump, Ack, Raise
  <2>2. ASSUME NEW c \in Clients,
               \/ \E i \in Invoices : Submit(c, i) \/ Resubmit(c, i)
               \/ ClientStep(c) \/ RequestFails(c) \/ PublishFails(c) \/ PublishAgainFails(c)
        PROVE  UNCHANGED faults
    BY <1>1, <2>2
    DEF Submit, Resubmit, ClientStep, Publish, SaveEvaluating, BumpSubmitted, SaveFailed,
        SaveResubmitted, PublishAgain, RequestFails, PublishFails, PublishAgainFails, Ambiguous
  <2>3. CASE Downstream(FALSE) \/ Downstream(TRUE)
    BY <1>1, <2>3 DEF Downstream, Decide, Review, Pay, Publishes
  <2> QED BY <1>1, <2>1, <2>2, <2>3 DEF Next, Crash, vars
<1> QED BY <1>0, <1>1, <1>2 DEF NoFaults, Suffered

\* Nothing is out of turn at first.
LEMMA NoFaultInit == Init => TurnInv
BY DEF Init, TurnInv, HasStatus, Workers

\* Without faults every step keeps the events in turn.
LEMMA TurnStep ==
  ASSUME TypeInv, TypeInv', StoryInv, BusInv, HandsInv, RecordInv, CauseInv, MarkInv, FreshInv,
         TurnInv, [Next]_vars, NoFaults'
  PROVE  TurnInv'
<1>f. \A kind : ~Fault(kind)
  BY FaultsStay
<1>1. ASSUME NEW c \in Clients PROVE pc'[c] # "save_failed"
  <2>1. ~PublishFails(c)
    BY <1>f DEF PublishFails, Ambiguous
  <2> QED BY <2>1, ClientKinds DEF Waits, TurnInv
\* How a record comes to be submitted.
<1>2. ASSUME NEW i \in Invoices, HasStatus(i, "submitted")'
      PROVE  \/ record'[i] = record[i] /\ HasStatus(i, "submitted")
             \/ record[i] = None /\ UNCHANGED sent /\ PublishesNext(i)
  <2>1. record'[i] = record[i] => HasStatus(i, "submitted")
    BY <1>2 DEF HasStatus
  <2>2. ASSUME NEW j \in Invoices, NEW r \in InvoiceRecord, Writes(j, r), UNCHANGED sent,
               (Begins(j, r) /\ PublishesNext(j)) \/ TakesOn(j, r)
        PROVE  \/ record'[i] = record[i]
               \/ record[i] = None /\ UNCHANGED sent /\ PublishesNext(i)
    BY <1>2, <2>2 DEF Writes, Begins, TakesOn, HasStatus
  <2>3. ASSUME NEW c \in Clients, SaveResubmitted(c) PROVE record'[i] = record[i]
    <3>1. Writes(Own(c), draft[c].record) /\ draft[c].record.status = "evaluating"
      BY <2>3, SaveResubmittedDoes DEF StoryInv, Relies
    <3> QED BY <1>2, <3>1 DEF Writes, HasStatus
  <2>4. ASSUME NEW h \in Handlers, Update(h), record' # record PROVE record'[i] = record[i]
    <3>1. PICK m \in sent :
             /\ Worded(m) /\ m.topic # "invoice-submitted"
             /\ Expected(m, record[m.invoice].status)
             /\ \E r \in InvoiceRecord : Writes(m.invoice, r) /\ r.status = Target(m)
      BY <2>4, UpdateFinds DEF RecordInv
    <3>2. Target(m) # "submitted"
      BY <3>1, TargetFollows DEF Shown!Follows
    <3> QED BY <1>2, <3>1, <3>2 DEF Writes, HasStatus
  <2> QED BY <2>1, <2>2, <2>3, <2>4, RecordKinds
<1>3. ASSUME NEW i \in Invoices, HasStatus(i, "submitted")'
      PROVE  \E c \in Clients : pc'[c] \in {"publish", "save_evaluating"} /\ Own(c)' = i
  <2>1. CASE PublishesNext(i)
    BY <2>1 DEF PublishesNext
  <2>2. CASE record'[i] = record[i] /\ HasStatus(i, "submitted")
    <3>1. PICK c \in Clients : pc[c] \in {"publish", "save_evaluating"} /\ Own(c) = i
      BY <2>2 DEF TurnInv
    <3>2. CASE Publish(c) /\ pc'[c] = "save_evaluating"
      <4>1. Own(c)' = Own(c)
        BY <3>2 DEF Publish, locals, Own
      <4> QED BY <3>1, <3>2, <4>1
    <3>3. ~SaveEvaluating(c)
      <4>1. ASSUME SaveEvaluating(c) PROVE record'[i].status = "evaluating"
        BY <3>1, <4>1, SaveEvaluatingDoes DEF Writes
      <4> QED BY <1>3, <4>1 DEF HasStatus
    <3>4. ~PublishFails(c) /\ ~RequestFails(c) /\ ~Crash
      BY <1>f DEF PublishFails, Ambiguous, RequestFails, Crash
    <3>5. /\ \A j \in Invoices : ~Submit(c, j) /\ ~Resubmit(c, j)
          /\ ~SaveResubmitted(c) /\ ~BumpSubmitted(c) /\ ~SaveFailed(c) /\ ~PublishAgain(c)
          /\ ~PublishAgainFails(c)
      BY <3>1 DEF Submit, Resubmit, SaveResubmitted, BumpSubmitted, SaveFailed, PublishAgain,
                  PublishAgainFails
    <3> QED BY <3>1, <3>2, <3>3, <3>4, <3>5, ClientKinds DEF Waits
  <2> QED BY <1>2, <1>3, <2>1, <2>2
\* No submission fails.
<1>7. ASSUME NEW i \in Invoices, HasStatus(i, "submit_failed")' PROVE FALSE
  <2>1. record'[i] # record[i]
    BY <1>7 DEF HasStatus, TurnInv
  <2>2. ASSUME NEW j \in Invoices, NEW r \in InvoiceRecord, Writes(j, r), Begins(j, r) \/ TakesOn(j, r)
        PROVE  FALSE
    BY <1>7, <2>1, <2>2 DEF Writes, Begins, TakesOn, HasStatus, TurnInv
  <2>3. ASSUME NEW c \in Clients, SaveResubmitted(c) PROVE FALSE
    <3>1. Writes(Own(c), draft[c].record) /\ draft[c].record.status = "evaluating"
      BY <2>3, SaveResubmittedDoes DEF StoryInv, Relies
    <3> QED BY <1>7, <2>1, <3>1 DEF Writes, HasStatus
  <2>4. ASSUME NEW h \in Handlers, Update(h) PROVE FALSE
    <3>1. PICK m \in sent :
             /\ Worded(m) /\ m.topic # "invoice-submitted"
             /\ Expected(m, record[m.invoice].status)
             /\ \E r \in InvoiceRecord : Writes(m.invoice, r) /\ r.status = Target(m)
      BY <2>1, <2>4, UpdateFinds DEF RecordInv
    <3>2. record[m.invoice].status # "submitted"
      BY <3>1 DEF Expected
    <3>3. Target(m) # "submit_failed"
      BY <3>1, <3>2, TargetFollows DEF Shown!Follows
    <3> QED BY <1>7, <2>1, <3>1, <3>3 DEF Writes, HasStatus
  <2> QED BY <2>1, <2>2, <2>3, <2>4, RecordKinds
\* A handler that held its event before.
<1>4. ASSUME NEW h \in Handlers, pc[h] # "idle", event'[h] = event[h]
      PROVE  /\ ~HasStatus(event[h].invoice, "submitted")'
             /\ \A n \in unacked' : n.invoice = event[h].invoice => Rank(event[h]) <= Rank(n)
  <2>1. /\ event[h] \in sent /\ event[h].invoice \in Invoices
        /\ ~HasStatus(event[h].invoice, "submitted")
        /\ \A n \in unacked : n.invoice = event[h].invoice => Rank(event[h]) <= Rank(n)
    BY <1>4, EventTyped DEF TurnInv
  <2>2. PICK i \in Invoices : i = event[h].invoice
    BY <2>1
  <2>3. record[i] # None
    BY <2>1, <2>2 DEF RecordInv, SentKnown
  <2>4. ~HasStatus(i, "submitted")'
    BY <1>2, <2>1, <2>2, <2>3
  <2>5. ~HasStatus(event[h].invoice, "submitted")'
    BY <1>4, <2>2, <2>4 DEF HasStatus
  <2> QED BY <2>1, <2>5, FaultsStay, PublishedInOrder DEF RecordInv
\* An event that arrives does so in its turn.
<1>5. ASSUME NEW h \in Handlers, NEW m \in unacked, Deliver(h, m)
      PROVE  /\ ~HasStatus(m.invoice, "submitted")'
             /\ \A n \in unacked' : n.invoice = m.invoice => Rank(m) <= Rank(n)
  <2>1. ItsTurn(m) /\ UNCHANGED <<record, unacked>>
    BY <1>5, <1>f DEF Deliver, stores, bus
  <2>2. m \in sent /\ m.invoice \in Invoices
    BY DEF TypeInv, TypeOK, Message
  <2>3. ~HasStatus(m.invoice, "submitted")
    BY <2>1, <2>2 DEF ItsTurn, TurnInv, FreshInv
  <2> QED BY <2>1, <2>3 DEF ItsTurn, HasStatus
<1>6. ASSUME NEW h \in Handlers, pc'[h] # "idle"
      PROVE  /\ ~HasStatus(event[h].invoice, "submitted")'
             /\ \A n \in unacked' : n.invoice = event'[h].invoice => Rank(event'[h]) <= Rank(n)
  <2>1. CASE pc[h] # "idle" /\ event'[h] = event[h]
    BY <1>4, <2>1
  <2>2. ASSUME NEW m \in unacked, Deliver(h, m)
        PROVE  /\ ~HasStatus(event[h].invoice, "submitted")'
               /\ \A n \in unacked' : n.invoice = event'[h].invoice => Rank(event'[h]) <= Rank(n)
    <3>1. event'[h] = m
      BY <2>2, HandlerSteps
    <3> QED BY <1>5, <2>2, <3>1 DEF HasStatus
  <2> QED BY <1>6, <2>1, <2>2, HandlerKinds, HandlerSteps DEF Rests
<1> QED BY <1>1, <1>3, <1>6, <1>7 DEF TurnInv

\* An event on one of the topics, or with one of the outcomes, was applied to a submission.
DoneAt(i, v, topics) ==
  \E m \in sent : m.topic \in topics /\ m.invoice = i /\ m.version = v /\ Used(m)

DoneAs(i, v, outcomes) ==
  \E m \in sent : m.outcome \in outcomes /\ m.invoice = i /\ m.version = v /\ Used(m)

\* The status says exactly which events were applied.
Pace(i, v) ==
  /\ HasStatus(i, "submitted") \/ HasStatus(i, "evaluating") <=> ~DoneAt(i, v, {"decision-made"})
  /\ ~DoneAt(i, v, {"decision-made"}) => ~DoneAt(i, v, Answers \cup Payments)
  /\ HasStatus(i, "pending_approval") <=>
       DoneAs(i, v, {"human_review"}) /\ ~DoneAt(i, v, {"approval-resolved"})
  /\ HasStatus(i, "pending_approval") => ~DoneAt(i, v, Payments)
  /\ HasStatus(i, "approved") <=>
       DoneAs(i, v, {"auto_approve", "approved"}) /\ ~DoneAt(i, v, Payments)

PaceInv == \A i \in Invoices : record[i] # None => Pace(i, record[i].version)

\* An event that is used up without a fault is used up by its update.
LEMMA UsedKinds ==
  ASSUME TypeInv, MarkInv, [Next]_vars, NoFaults', NEW m \in sent', m.topic # "invoice-submitted",
         Used(m)'
  PROVE  m \in sent /\ (Used(m) \/ \E h \in Handlers : Update(h) /\ event[h] = m)
<1>f. /\ ~Crash /\ \A h \in Handlers : ~Raise(h)
  BY FaultsStay DEF Crash, Raise
<1>1. m \in processed' /\ \A h \in Handlers : pc'[h] = "update" => event'[h] # m
  BY DEF Used
<1>2. m \in processed
  <2>1. ASSUME NEW h \in Handlers, FirstTime(h), pc[h] = "first_time", m = event[h],
               m \notin processed
        PROVE  FALSE
    BY <1>1, <2>1, HandlerSteps
  <2> QED BY <1>1, <1>f, <2>1, MarkKinds
<1>3. m \in sent
  BY <1>2 DEF MarkInv
<1>4. ASSUME NEW h \in Handlers, pc[h] = "update", event[h] = m PROVE Update(h)
  BY <1>1, <1>4, <1>f, HandlerKinds, HandlerSteps DEF Rests, Ack
<1> QED BY <1>2, <1>3, <1>4 DEF Used

\* As long as nothing fails, an event applies when its turn has come.
LEMMA UpdateApplies ==
  ASSUME TypeInv, BusInv, HandsInv, SentKnown, CauseInv, MarkInv, TurnInv, PaceInv,
         NEW h \in Handlers, Update(h)
  PROVE  pc'[h] = "bump"
<1>0. PICK m : m = event[h]
  OBVIOUS
<1>1. /\ pc[h] = "update" /\ m \in sent /\ Worded(m) /\ m \in Message
      /\ m.topic # "invoice-submitted" /\ m.invoice \in Invoices
  BY <1>0, UpdateDoes DEF Worded
<1>2. ~Used(m)
  BY <1>0, UpdateUses
<1>3. PICK i \in Invoices, v \in Versions : i = m.invoice /\ v = m.version
  BY <1>1 DEF Message
<1>4. record[i] # None /\ record[i].version = v
  BY <1>1, <1>2, <1>3, CurrentOnly DEF SentKnown
<1>5. Pace(i, v) /\ ~HasStatus(i, "submitted")
  BY <1>0, <1>1, <1>3, <1>4 DEF PaceInv, TurnInv
\* What must precede it was applied.
<1>6. ASSUME NEW n \in sent, Fellow(m, n), Rank(n) < Rank(m) PROVE Used(n)
  <2>1. n \in Message /\ Rank(n) \in Nat /\ Rank(m) \in Nat
    BY <1>1, RankPlaces DEF TypeInv, TypeOK
  <2>2. n \notin unacked
    BY <1>0, <1>1, <1>6, <2>1 DEF TurnInv, Fellow
  <2> QED BY <2>2 DEF MarkInv, Used
<1>7. Expected(m, record[i].status)
  <2>1. CASE m.topic = "decision-made"
    <3>1. ~DoneAt(i, v, {"decision-made"})
      BY <1>1, <1>2, <1>3, <2>1 DEF DoneAt, BusInv, Answers, Fellow
    <3>2. HasStatus(i, "evaluating")
      BY <1>5, <3>1 DEF Pace
    <3> QED BY <2>1, <3>2 DEF Expected, HasStatus
  <2>2. CASE m.topic = "approval-resolved"
    <3>1. PICK d \in sent : d.topic = "decision-made" /\ d.outcome = "human_review" /\ Fellow(m, d)
      BY <1>1, <2>2 DEF CauseInv
    <3>2. d \in Message /\ d.version = v
      BY <1>3, <3>1 DEF TypeInv, TypeOK, Fellow
    <3>3. Rank(m) = 4 * v + 2 /\ Rank(d) = 4 * v + 1 /\ v \in Nat
      BY <1>1, <1>3, <2>2, <3>1, <3>2, RankPlaces
    <3>4. Used(d)
      BY <1>6, <3>1, <3>3
    <3>5. DoneAs(i, v, {"human_review"})
      BY <1>3, <3>1, <3>2, <3>4 DEF DoneAs, Fellow
    <3>6. ~DoneAt(i, v, {"approval-resolved"})
      BY <1>1, <1>2, <1>3, <2>2 DEF DoneAt, BusInv, Answers, Fellow
    <3>7. HasStatus(i, "pending_approval")
      BY <1>5, <3>5, <3>6 DEF Pace
    <3> QED BY <2>2, <3>7 DEF Expected, HasStatus
  <2>3. CASE m.topic \in Payments
    <3>1. PICK a \in sent :
            a.topic \in Answers /\ a.outcome \in {"auto_approve", "approved"} /\ Fellow(m, a)
      BY <1>1, <2>3, AnswersFollow
    <3>2. a \in Message /\ a.version = v
      BY <1>3, <3>1 DEF TypeInv, TypeOK, Fellow
    <3>3. Rank(m) = 4 * v + 3 /\ Rank(a) \in {4 * v + 1, 4 * v + 2} /\ v \in Nat
      BY <1>1, <1>3, <2>3, <3>1, <3>2, RankPlaces DEF Answers
    <3>4. Used(a)
      BY <1>6, <3>1, <3>3
    <3>5. DoneAs(i, v, {"auto_approve", "approved"})
      BY <1>3, <3>1, <3>2, <3>4 DEF DoneAs, Fellow
    <3>6. ~DoneAt(i, v, Payments)
      BY <1>1, <1>2, <1>3, <2>3 DEF DoneAt, CauseInv
    <3>7. HasStatus(i, "approved")
      BY <1>5, <3>5, <3>6 DEF Pace
    <3> QED BY <2>3, <3>7 DEF Expected, HasStatus, Payments
  <2> QED BY <1>1, <2>1, <2>2, <2>3 DEF Message, Payments
<1>8. /\ pc[h] = "update" /\ Goto(h, "bump")
  BY <1>0, <1>3, <1>4, <1>7 DEF Update
<1> QED BY <1>8 DEF Goto, TypeInv, TypeOK, Workers

\* Without faults every step keeps the records up with the events.
LEMMA PaceStep ==
  ASSUME TypeInv, TypeInv', StoryInv, BusInv, HandsInv, RecordInv, CauseInv, MarkInv,
         TurnInv, PaceInv, [Next]_vars, NoFaults'
  PROVE  PaceInv'
<1> USE DEF RecordInv
<1>f. None \notin {"human_review", "auto_approve", "approved"}
  BY IntakeAssumption DEF Routes, Verdicts
<1>o. \A m \in sent : m.topic = "invoice-submitted" => m.outcome = None
  BY DEF BusInv
<1> SUFFICES ASSUME NEW i \in Invoices, record'[i] # None PROVE Pace(i, record[i].version)'
  BY DEF PaceInv
<1>v. PICK v : v = record'[i].version
  OBVIOUS
<1> DEFINE Outcomes == {"human_review", "auto_approve", "approved"}
\* What is applied to it is what was, and the event that applies now.
<1>u. ASSUME NEW k \in sent', k.topic # "invoice-submitted", k.invoice = i, k.version = v, Used(k)'
      PROVE  /\ k \in sent
             /\ Used(k) \/ \E h \in Handlers : Update(h) /\ event[h] = k /\ pc'[h] = "bump"
  <2>1. k \in sent /\ (Used(k) \/ \E h \in Handlers : Update(h) /\ event[h] = k)
    BY <1>u, UsedKinds
  <2> QED BY <2>1, UpdateApplies
<1>g. \A k \in sent : Used(k) => k \in sent' /\ Used(k)'
  BY SentGrows, UsedStays
\* No event applies to this invoice.
<1>1. ASSUME \A h \in Handlers : ~(Update(h) /\ event[h].invoice = i /\ pc'[h] = "bump")
      PROVE  /\ \A s \in SUBSET (Answers \cup Payments) : DoneAt(i, v, s)' <=> DoneAt(i, v, s)
             /\ \A s \in SUBSET Outcomes : DoneAs(i, v, s)' <=> DoneAs(i, v, s)
  <2>1. \A k \in sent' : /\ k.topic # "invoice-submitted" /\ k.invoice = i /\ k.version = v /\ Used(k)'
                           => k \in sent /\ Used(k)
    BY <1>1, <1>u
  <2>2. ASSUME NEW s \in SUBSET (Answers \cup Payments)
        PROVE  DoneAt(i, v, s)' <=> DoneAt(i, v, s)
    <3>1. "invoice-submitted" \notin s
      BY DEF Answers, Payments
    <3> QED BY <1>g, <2>1, <3>1 DEF DoneAt
  <2>3. ASSUME NEW s \in SUBSET Outcomes PROVE DoneAs(i, v, s)' <=> DoneAs(i, v, s)
    <3>1. \A k \in sent' : k.topic = "invoice-submitted" => k.outcome = None
      BY FaultsStay, BusStep DEF BusInv
    <3>2. None \notin s
      BY <1>f
    <3> QED BY <1>g, <2>1, <3>1, <3>2 DEF DoneAs
  <2> QED BY <2>2, <2>3
<1>2. ASSUME record'[i] = record[i],
             \A h \in Handlers : ~(Update(h) /\ event[h].invoice = i /\ pc'[h] = "bump")
      PROVE  Pace(i, v)'
  <2>1. Pace(i, v)
    BY <1>v, <1>2 DEF PaceInv
  <2>2. {"decision-made"} \in SUBSET (Answers \cup Payments)
        /\ {"approval-resolved"} \in SUBSET (Answers \cup Payments)
        /\ Payments \in SUBSET (Answers \cup Payments)
        /\ Answers \cup Payments \in SUBSET (Answers \cup Payments)
        /\ {"human_review"} \in SUBSET Outcomes /\ {"auto_approve", "approved"} \in SUBSET Outcomes
    BY DEF Answers, Payments
  <2>3. \A s : HasStatus(i, s)' <=> HasStatus(i, s)
    BY <1>2 DEF HasStatus
  <2>4. /\ DoneAt(i, v, {"decision-made"})' <=> DoneAt(i, v, {"decision-made"})
        /\ DoneAt(i, v, {"approval-resolved"})' <=> DoneAt(i, v, {"approval-resolved"})
        /\ DoneAt(i, v, Payments)' <=> DoneAt(i, v, Payments)
        /\ DoneAt(i, v, Answers \cup Payments)' <=> DoneAt(i, v, Answers \cup Payments)
        /\ DoneAs(i, v, {"human_review"})' <=> DoneAs(i, v, {"human_review"})
        /\ DoneAs(i, v, {"auto_approve", "approved"})' <=> DoneAs(i, v, {"auto_approve", "approved"})
    BY <1>1, <1>2, <2>2
  <2> QED BY <2>1, <2>3, <2>4 DEF Pace
\* Nothing was said of the submission that is stored now, and it is not taken further.
<1>3. ASSUME record'[i].status \in {"submitted", "evaluating"}, UNCHANGED sent,
             \A m \in sent : ~(m.invoice = i /\ m.version = v)
      PROVE  Pace(i, v)'
  <2>1. \A s : ~DoneAt(i, v, s)' /\ ~DoneAs(i, v, s)'
    BY <1>3 DEF DoneAt, DoneAs
  <2>2. /\ HasStatus(i, "submitted")' \/ HasStatus(i, "evaluating")'
        /\ ~HasStatus(i, "pending_approval")' /\ ~HasStatus(i, "approved")'
    BY <1>3 DEF HasStatus
  <2> QED BY <2>1, <2>2 DEF Pace
<1>4. ASSUME NEW j \in Invoices, NEW r \in InvoiceRecord, Writes(j, r), UNCHANGED sent,
             Begins(j, r) \/ TakesOn(j, r),
             \A h \in Handlers : ~(Update(h) /\ event[h].invoice = i /\ pc'[h] = "bump")
      PROVE  Pace(i, v)'
  <2>1. CASE j # i
    BY <1>2, <1>4, <2>1 DEF Writes
  <2>2. CASE j = i /\ Begins(j, r)
    BY <1>3, <1>4, <2>2 DEF Begins, Writes, SentKnown
  <2>3. CASE j = i /\ TakesOn(j, r)
    <3>1. /\ record[i] # None /\ record[i].status = "submitted" /\ record'[i].status = "evaluating"
          /\ record[i].version = v
      BY <1>v, <1>4, <2>3 DEF Writes, TakesOn, HasStatus, TurnInv
    <3>2. Pace(i, v) /\ HasStatus(i, "submitted")
          /\ ~HasStatus(i, "pending_approval") /\ ~HasStatus(i, "approved")
      BY <3>1 DEF PaceInv, HasStatus
    <3>3. /\ HasStatus(i, "evaluating")'
          /\ ~HasStatus(i, "pending_approval")' /\ ~HasStatus(i, "approved")'
      BY <1>4, <3>1 DEF HasStatus
    <3>4. /\ \A s \in SUBSET (Answers \cup Payments) : DoneAt(i, v, s)' <=> DoneAt(i, v, s)
          /\ \A s \in SUBSET Outcomes : DoneAs(i, v, s)' <=> DoneAs(i, v, s)
      BY <1>1, <1>4
    <3>5. {"decision-made"} \in SUBSET (Answers \cup Payments)
          /\ {"approval-resolved"} \in SUBSET (Answers \cup Payments)
          /\ Payments \in SUBSET (Answers \cup Payments)
          /\ Answers \cup Payments \in SUBSET (Answers \cup Payments)
          /\ {"human_review"} \in SUBSET Outcomes /\ {"auto_approve", "approved"} \in SUBSET Outcomes
      BY DEF Answers, Payments
    <3>6. /\ DoneAt(i, v, {"decision-made"})' <=> DoneAt(i, v, {"decision-made"})
          /\ DoneAt(i, v, {"approval-resolved"})' <=> DoneAt(i, v, {"approval-resolved"})
          /\ DoneAt(i, v, Payments)' <=> DoneAt(i, v, Payments)
          /\ DoneAt(i, v, Answers \cup Payments)' <=> DoneAt(i, v, Answers \cup Payments)
          /\ DoneAs(i, v, {"human_review"})' <=> DoneAs(i, v, {"human_review"})
          /\ DoneAs(i, v, {"auto_approve", "approved"})' <=> DoneAs(i, v, {"auto_approve", "approved"})
      BY <3>4, <3>5
    <3> QED BY <3>2, <3>3, <3>6 DEF Pace
  <2> QED BY <1>4, <2>1, <2>2, <2>3
<1>5. ASSUME NEW c \in Clients, SaveResubmitted(c),
             \A h \in Handlers : ~(Update(h) /\ event[h].invoice = i /\ pc'[h] = "bump")
      PROVE  Pace(i, v)'
  <2>1. /\ Writes(Own(c), draft[c].record) /\ UNCHANGED sent /\ Own(c) \in Invoices
        /\ pc[c] = "save_resubmitted" /\ draft[c].record \in InvoiceRecord
    BY <1>5, SaveResubmittedDoes
  <2>2. /\ HasStatus(Own(c), "needs_info") /\ draft[c].record.status = "evaluating"
        /\ record[Own(c)].version < draft[c].record.version
    BY <2>1 DEF StoryInv, Relies
  <2>3. CASE Own(c) # i
    BY <1>2, <1>5, <2>1, <2>3 DEF Writes
  <2>4. CASE Own(c) = i
    <3>1. record'[i] = draft[c].record
      BY <2>1, <2>4 DEF Writes
    <3>2. record[i].version \in Nat /\ v \in Nat /\ record[i].version < v
      BY <1>v, <2>1, <2>2, <2>4, <3>1, IntakeAssumption
      DEF HasStatus, TypeInv, TypeOK, InvoiceRecord, Versions
    <3>3. \A m \in sent : m.version \in Nat /\ (m.invoice = i => m.version <= record[i].version)
      BY DEF TypeInv, TypeOK, Message, Versions, SentKnown
    <3> QED BY <1>3, <2>1, <2>2, <3>1, <3>2, <3>3
  <2> QED BY <2>3, <2>4
\* An event applies to this invoice.
<1>6. ASSUME NEW h \in Handlers, Update(h), event[h].invoice = i, pc'[h] = "bump"
      PROVE  Pace(i, v)'
  <2>1. PICK m \in sent :
           /\ m = event[h] /\ Worded(m) /\ m.topic # "invoice-submitted" /\ m.invoice = i
           /\ Used(m)' /\ m.version = record[i].version
           /\ record[i] # None /\ Expected(m, record[i].status)
           /\ \E r \in InvoiceRecord :
                Writes(i, r) /\ r.version = record[i].version /\ r.status = Target(m)
    BY <1>6, UpdateFinds
  <2>2. /\ record'[i].status = Target(m) /\ m.version = v /\ record[i].version = v
        /\ record'[i] # None
    BY <1>v, <2>1 DEF Writes
  <2>3. Pace(i, v)
    BY <2>1, <2>2 DEF PaceInv
  <2>4. m \in sent' /\ m.outcome \in Routes \cup Verdicts \cup {None}
        /\ m.topic \in Answers \cup Payments
    BY <2>1, SentGrows DEF Worded, Message, Answers, Payments
  \* It adds itself to what was applied, and nothing else does.
  <2>5. ASSUME NEW k \in sent', k.topic # "invoice-submitted", k.invoice = i, k.version = v, Used(k)'
        PROVE  k \in sent /\ (Used(k) \/ k = m)
    <3>1. ASSUME NEW g \in Handlers, Update(g) PROVE g = h
      BY <1>6, <3>1, HandlerSteps DEF Rests
    <3> QED BY <1>u, <2>1, <2>5, <3>1
  <2>6. ASSUME NEW s \in SUBSET (Answers \cup Payments)
        PROVE  DoneAt(i, v, s)' <=> DoneAt(i, v, s) \/ m.topic \in s
    <3>1. "invoice-submitted" \notin s
      BY DEF Answers, Payments
    <3> QED BY <1>g, <2>1, <2>2, <2>4, <2>5, <3>1 DEF DoneAt
  <2>7. ASSUME NEW s \in SUBSET Outcomes
        PROVE  DoneAs(i, v, s)' <=> DoneAs(i, v, s) \/ m.outcome \in s
    <3>1. \A k \in sent' : k.topic = "invoice-submitted" => k.outcome = None
      BY FaultsStay, BusStep DEF BusInv
    <3>2. None \notin s
      BY <1>f
    <3> QED BY <1>g, <2>1, <2>2, <2>4, <2>5, <3>1, <3>2 DEF DoneAs
  <2>8. /\ DoneAt(i, v, {"decision-made"})' <=>
             DoneAt(i, v, {"decision-made"}) \/ m.topic = "decision-made"
        /\ DoneAt(i, v, {"approval-resolved"})' <=>
             DoneAt(i, v, {"approval-resolved"}) \/ m.topic = "approval-resolved"
        /\ DoneAt(i, v, Payments)' <=> DoneAt(i, v, Payments) \/ m.topic \in Payments
    <3>1. /\ {"decision-made"} \in SUBSET (Answers \cup Payments)
          /\ {"approval-resolved"} \in SUBSET (Answers \cup Payments)
          /\ Payments \in SUBSET (Answers \cup Payments)
      BY DEF Answers
    <3> QED BY <2>6, <3>1
  <2>9. /\ DoneAs(i, v, {"human_review"})' <=>
             DoneAs(i, v, {"human_review"}) \/ m.outcome = "human_review"
        /\ DoneAs(i, v, {"auto_approve", "approved"})' <=>
             DoneAs(i, v, {"auto_approve", "approved"}) \/ m.outcome \in {"auto_approve", "approved"}
    <3>1. {"human_review"} \in SUBSET Outcomes /\ {"auto_approve", "approved"} \in SUBSET Outcomes
      OBVIOUS
    <3> QED BY <2>7, <3>1
  <2> HIDE DEF Outcomes
  <2>10. CASE m.topic = "decision-made"
    <3>1. record[i].status = "evaluating" /\ m.outcome \in Routes
      BY <2>1, <2>10 DEF Expected, Worded
    <3>2. ~DoneAt(i, v, {"decision-made"}) /\ ~DoneAt(i, v, Answers \cup Payments)
      BY <2>1, <2>3, <3>1 DEF Pace, HasStatus
    <3>3. /\ ~DoneAt(i, v, {"approval-resolved"}) /\ ~DoneAt(i, v, Payments)
          /\ ~DoneAs(i, v, {"human_review"}) /\ ~DoneAs(i, v, {"auto_approve", "approved"})
      <4>1. \A k \in sent : k.outcome \in {"human_review", "auto_approve", "approved"} =>
              k.topic \in Answers \cup Payments
        BY <1>f, <1>o DEF TypeInv, TypeOK, Message, Answers, Payments
      <4> QED BY <3>2, <4>1 DEF DoneAt, DoneAs, Answers
    <3>4. /\ DoneAt(i, v, {"decision-made"})' /\ ~DoneAt(i, v, {"approval-resolved"})'
          /\ ~DoneAt(i, v, Payments)'
          /\ DoneAs(i, v, {"human_review"})' <=> m.outcome = "human_review"
          /\ DoneAs(i, v, {"auto_approve", "approved"})' <=> m.outcome \in {"auto_approve", "approved"}
      BY <2>8, <2>9, <2>10, <3>3 DEF Payments
    <3>5. Target(m) = CASE m.outcome = "auto_approve" -> "approved"
                        [] m.outcome = "human_review" -> "pending_approval"
                        [] m.outcome = "reject" -> "rejected"
                        [] m.outcome = "duplicate" -> "duplicate"
      BY <2>10, <3>1 DEF Target, Routes
    <3>6. /\ ~HasStatus(i, "submitted")' /\ ~HasStatus(i, "evaluating")'
          /\ HasStatus(i, "pending_approval")' <=> m.outcome = "human_review"
          /\ HasStatus(i, "approved")' <=> m.outcome \in {"auto_approve", "approved"}
      BY <2>2, <3>1, <3>5 DEF HasStatus, Routes
    <3> QED BY <3>4, <3>6 DEF Pace
  <2>11. CASE m.topic = "approval-resolved"
    <3>1. record[i].status = "pending_approval" /\ m.outcome \in Verdicts
      BY <2>1, <2>11 DEF Expected, Worded
    <3>2. /\ DoneAt(i, v, {"decision-made"}) /\ DoneAs(i, v, {"human_review"})
          /\ ~DoneAt(i, v, Payments) /\ ~DoneAs(i, v, {"auto_approve", "approved"})
      BY <2>1, <2>3, <3>1 DEF Pace, HasStatus
    <3>3. /\ DoneAt(i, v, {"decision-made"})' /\ DoneAt(i, v, {"approval-resolved"})'
          /\ ~DoneAt(i, v, Payments)'
          /\ DoneAs(i, v, {"auto_approve", "approved"})' <=> m.outcome \in {"auto_approve", "approved"}
      BY <2>8, <2>9, <2>11, <3>2 DEF Payments
    <3>4. Target(m) = CASE m.outcome = "approved" -> "approved"
                        [] m.outcome = "rejected" -> "rejected"
                        [] m.outcome = "needs_info" -> "needs_info"
      BY <2>11, <3>1 DEF Target, Verdicts
    <3>5. /\ ~HasStatus(i, "submitted")' /\ ~HasStatus(i, "evaluating")'
          /\ ~HasStatus(i, "pending_approval")'
          /\ HasStatus(i, "approved")' <=> m.outcome \in {"auto_approve", "approved"}
      BY <2>2, <3>1, <3>4 DEF HasStatus, Verdicts
    <3> QED BY <3>3, <3>5 DEF Pace
  <2>12. CASE m.topic \in Payments
    <3>1. record[i].status = "approved" /\ m.outcome = None
      BY <2>1, <2>12 DEF Expected, Worded, Payments
    <3>2. /\ DoneAt(i, v, {"decision-made"})
          /\ ~(DoneAs(i, v, {"human_review"}) /\ ~DoneAt(i, v, {"approval-resolved"}))
      BY <2>1, <2>3, <3>1 DEF Pace, HasStatus
    <3>3. /\ DoneAt(i, v, {"decision-made"})' /\ DoneAt(i, v, Payments)'
          /\ ~(DoneAs(i, v, {"human_review"})' /\ ~DoneAt(i, v, {"approval-resolved"})')
      BY <1>f, <2>8, <2>9, <2>12, <3>1, <3>2
    <3>4. Target(m) \in {"paid", "payment_failed"}
      <4>1. m.outcome \notin Routes \cup Verdicts
        BY <3>1, IntakeAssumption
      <4> QED BY <2>12, <4>1 DEF Target, Payments, Routes, Verdicts
    <3>5. /\ ~HasStatus(i, "submitted")' /\ ~HasStatus(i, "evaluating")'
          /\ ~HasStatus(i, "pending_approval")' /\ ~HasStatus(i, "approved")'
      BY <2>2, <3>4 DEF HasStatus
    <3> QED BY <3>3, <3>5 DEF Pace
  <2> QED BY <2>4, <2>10, <2>11, <2>12 DEF Answers
<1>7. Pace(i, v)'
  <2>1. SUFFICES ASSUME \A h \in Handlers : ~(Update(h) /\ event[h].invoice = i /\ pc'[h] = "bump")
                 PROVE  Pace(i, v)'
    BY <1>6
  <2>2. ASSUME NEW h \in Handlers, Update(h) PROVE record'[i] = record[i]
    <3>1. CASE record' = record
      BY <3>1
    <3>2. CASE record' # record
      <4>1. PICK m \in sent : /\ m = event[h] /\ pc'[h] = "bump"
                              /\ \E r \in InvoiceRecord : Writes(m.invoice, r)
        BY <2>2, <3>2, UpdateFinds
      <4> QED BY <2>1, <2>2, <4>1 DEF Writes
    <3> QED BY <3>1, <3>2
  <2>3. CASE record'[i] = record[i]
    BY <1>2, <2>1, <2>3
  <2> QED BY <1>4, <1>5, <2>1, <2>2, <2>3, RecordKinds
<1> QED BY <1>7, <1>v DEF Pace, DoneAt, DoneAs

--------------------------------------------------------------------------------
(* The dashboard.  What was counted, and what a worker is about to count, is  *)
(* what happened; a fault may only lose some of it.                          *)

\* What was counted n times, and is about to be by those of W, happened to those of M.
Covers(n, W, M)   == IsFiniteSet(W) /\ IsFiniteSet(M) /\ n + Cardinality(W) <= Cardinality(M)
Exhausts(n, W, M) == n + Cardinality(W) = Cardinality(M)

Keeps(n, W, M) == Covers(n, W, M) /\ (NoFaults => Exhausts(n, W, M))

\* The requests that are about to count their submission, and what is stored.
Posting == {c \in Clients : pc[c] \in PostPcs \cup {"bump_submitted"}}
Stored  == {i \in Invoices : record[i] # None}

\* The events that are counted one by one, and the counter of each kind.
Counted == ({"decision-made"} \X Routes) \cup ({"approval-resolved"} \X Verdicts)
             \cup {<<"payment-failed", None>>}

KeyOf(t, o) == CASE t = "decision-made"     -> <<"decided", o>>
                 [] t = "approval-resolved" -> <<"verdict", o>>
                 [] t = "payment-failed"    -> <<"payment_failed", "all">>

\* The handlers that are about to count such an event, and the events that are marked.
AtWork(t, o) ==
  {h \in Handlers : pc[h] \in {"update", "bump"} /\ event[h].topic = t /\ event[h].outcome = o}
Marked(t, o) == {m \in processed : m.topic = t /\ m.outcome = o}

\* The handlers that are about to count a payment, and the invoices that are shown as paid.
AtPaid(k) ==
  {h \in Handlers : /\ pc[h] = "bump" /\ event[h].topic = "payment-completed"
                    /\ Counter(event[h], updated[h]) = k}
PaidBy(by) == {i \in Invoices : HasStatus(i, "paid") /\ record[i].decided_by = by}

BucketOf(by) == <<"paid", IF by = "router" THEN "auto" ELSE "human">>

SubmissionsCount == Keeps(counters[<<"submitted", "all">>], Posting, Stored)
EventsCount(t, o) == Keeps(counters[KeyOf(t, o)], AtWork(t, o), Marked(t, o))
PaymentsCount(by) == Keeps(counters[BucketOf(by)], AtPaid(BucketOf(by)), PaidBy(by))

CountInv ==
  /\ IsFiniteSet(sent)
  /\ SubmissionsCount
  /\ \A t, o : <<t, o>> \in Counted => EventsCount(t, o)
  /\ \A by \in {"router", "approver"} : PaymentsCount(by)

\* It happens once more.
LEMMA OneMore ==
  ASSUME NEW n \in Nat, NEW W, NEW M, Covers(n, W, M), NEW x, x \notin W, NEW y, y \notin M
  PROVE  /\ Covers(n, W \cup {x}, M \cup {y})
         /\ Exhausts(n, W, M) => Exhausts(n, W \cup {x}, M \cup {y})
<1>1. /\ IsFiniteSet(W \cup {x}) /\ Cardinality(W \cup {x}) = Cardinality(W) + 1
      /\ IsFiniteSet(M \cup {y}) /\ Cardinality(M \cup {y}) = Cardinality(M) + 1
  BY FS_AddElement DEF Covers
<1>2. Cardinality(W) \in Nat /\ Cardinality(M) \in Nat
  BY FS_CardinalityType DEF Covers
<1> QED BY <1>1, <1>2 DEF Covers, Exhausts

\* It is counted once more.
LEMMA OneCounted ==
  ASSUME NEW n \in Nat, NEW W, NEW M, Covers(n, W, M), NEW x \in W
  PROVE  /\ Covers(n + 1, W \ {x}, M)
         /\ Exhausts(n, W, M) => Exhausts(n + 1, W \ {x}, M)
<1>1. IsFiniteSet(W \ {x}) /\ Cardinality(W \ {x}) = Cardinality(W) - 1
  BY FS_RemoveElement DEF Covers
<1>2. Cardinality(W) \in Nat /\ Cardinality(M) \in Nat
  BY FS_CardinalityType DEF Covers
<1> QED BY <1>1, <1>2 DEF Covers, Exhausts

\* Some of it will not be counted.
LEMMA SomeLost ==
  ASSUME NEW n \in Nat, NEW W, NEW M, Covers(n, W, M),
         NEW V \in SUBSET W, NEW N, IsFiniteSet(N), M \subseteq N
  PROVE  Covers(n, V, N)
<1>1. IsFiniteSet(V) /\ Cardinality(V) <= Cardinality(W) /\ Cardinality(M) <= Cardinality(N)
  BY FS_Subset DEF Covers
<1>2. /\ Cardinality(V) \in Nat /\ Cardinality(W) \in Nat
      /\ Cardinality(M) \in Nat /\ Cardinality(N) \in Nat
  BY <1>1, FS_CardinalityType DEF Covers
<1> QED BY <1>1, <1>2 DEF Covers

\* The counter of an event is its own.
LEMMA CounterIsOwn ==
  ASSUME NEW m, Worded(m), m.topic # "invoice-submitted", NEW r,
         NEW t, NEW o, <<t, o>> \in Counted
  PROVE  /\ KeyOf(t, o) \in Counters /\ KeyOf(t, o) # <<"submitted", "all">>
         /\ Counter(m, r) = KeyOf(t, o) <=> m.topic = t /\ m.outcome = o
<1>1. \/ t = "decision-made" /\ o \in Routes
      \/ t = "approval-resolved" /\ o \in Verdicts
      \/ t = "payment-failed" /\ o = None
  BY DEF Counted
<1>2. CASE m.topic = "decision-made"
  BY <1>1, <1>2 DEF Counter, KeyOf, Worded, Counters
<1>3. CASE m.topic = "approval-resolved"
  BY <1>1, <1>3 DEF Counter, KeyOf, Worded, Counters
<1>4. CASE m.topic = "payment-failed"
  BY <1>1, <1>4 DEF Counter, KeyOf, Worded, Counters
<1>5. CASE m.topic = "payment-completed"
  BY <1>1, <1>5 DEF Counter, KeyOf, Worded, Counters
<1> QED BY <1>2, <1>3, <1>4, <1>5 DEF Worded, Message

\* A step is a handler's, a crash, or leaves the handlers alone and counts submissions only.
LEMMA QuietSteps ==
  ASSUME TypeInv, [Next]_vars
  PROVE  \/ /\ UNCHANGED processed /\ \A h \in Handlers : Rests(h)
            /\ \A k \in Counters : k # <<"submitted", "all">> => counters'[k] = counters[k]
         \/ Crash
         \/ \E h \in Handlers : (\E m \in unacked : Deliver(h, m)) \/ HandlerStep(h) \/ Raise(h)
<1>1. ASSUME NEW c \in Clients,
             \/ \E i \in Invoices : Submit(c, i) \/ Resubmit(c, i)
             \/ ClientStep(c) \/ RequestFails(c) \/ PublishFails(c) \/ PublishAgainFails(c)
      PROVE  /\ UNCHANGED processed /\ \A h \in Handlers : Rests(h)
             /\ \A k \in Counters : k # <<"submitted", "all">> => counters'[k] = counters[k]
  <2>1. \A h \in Handlers : c # h /\ h \in Workers
    BY IntakeAssumption DEF Workers
  <2>2. pc \in [Workers -> {"idle"} \cup ClientPcs \cup HandlerPcs]
    BY DEF TypeInv, TypeOK
  <2>3. \A h \in Handlers : Rests(h)
    BY <1>1, <2>1, <2>2
    DEF Submit, Resubmit, ClientStep, Publish, SaveEvaluating, BumpSubmitted, SaveFailed,
        SaveResubmitted, PublishAgain, RequestFails, PublishFails, PublishAgainFails, Answer,
        Hold, Goto, Rests, locals
  <2>4. UNCHANGED processed /\ (UNCHANGED counters \/ BumpSubmitted(c))
    BY <1>1
    DEF Submit, Resubmit, ClientStep, Publish, SaveEvaluating, BumpSubmitted, SaveFailed,
        SaveResubmitted, PublishAgain, RequestFails, PublishFails, PublishAgainFails, stores
  <2>5. BumpSubmitted(c) => \A k \in Counters : k # <<"submitted", "all">> => counters'[k] = counters[k]
    BY DEF BumpSubmitted, TypeInv, TypeOK
  <2> QED BY <2>3, <2>4, <2>5
<1>2. ASSUME Downstream(FALSE) \/ Downstream(TRUE) \/ UNCHANGED vars
      PROVE  UNCHANGED <<processed, counters>> /\ \A h \in Handlers : Rests(h)
  BY <1>2 DEF Downstream, vars, stores, locals, Rests
<1> QED BY <1>1, <1>2 DEF Next

\* There are finitely many events, so that they can be counted.
LEMMA SentFinite ==
  ASSUME TypeInv, [Next]_vars, IsFiniteSet(sent)
  PROVE  IsFiniteSet(sent')
<1>1. ASSUME NEW n, sent' = sent \cup {n} PROVE IsFiniteSet(sent')
  BY <1>1, FS_AddElement
<1>2. ASSUME NEW c \in Clients, Announces(c) PROVE IsFiniteSet(sent')
  BY <1>1, <1>2 DEF Announces, Broadcast
<1>3. ASSUME NEW m \in sent, Replies(m) PROVE IsFiniteSet(sent')
  BY <1>1, <1>3, RepliesWorded DEF Broadcast
<1> QED BY <1>2, <1>3, Sendings

\* Events of one kind are counted once they are handled, unless a fault intervenes.
LEMMA EventsStep ==
  ASSUME TypeInv, HandsInv, MarkInv, MarkInv',
         NoFaults => BusInv /\ RecordInv /\ CauseInv /\ TurnInv /\ PaceInv,
         [Next]_vars, IsFiniteSet(sent'),
         NEW t, NEW o, <<t, o>> \in Counted, EventsCount(t, o)
  PROVE  EventsCount(t, o)'
<1> DEFINE k == KeyOf(t, o)
           W == AtWork(t, o)
           M == Marked(t, o)
<1>k. k \in Counters /\ k # <<"submitted", "all">>
  <2>1. \/ t = "decision-made" /\ o \in Routes
        \/ t = "approval-resolved" /\ o \in Verdicts
        \/ t = "payment-failed" /\ o = None
    BY DEF Counted
  <2> QED BY <2>1 DEF KeyOf, Counters
<1>c. counters[k] \in Nat
  BY <1>k DEF TypeInv, TypeOK
<1>w. Covers(counters[k], W, M) /\ (NoFaults => Exhausts(counters[k], W, M))
  BY DEF EventsCount, Keeps
<1>m. IsFiniteSet(M') /\ M \subseteq M'
  <2>1. M' \subseteq sent' /\ M \subseteq M'
    BY MarksStay DEF MarkInv, Marked
  <2> QED BY <2>1, FS_Subset
<1>f. NoFaults' => NoFaults
  BY FaultsStay
<1>g. ASSUME Covers(counters'[k], W', M'), NoFaults' => Exhausts(counters'[k], W', M')
      PROVE  EventsCount(t, o)'
  BY <1>g DEF EventsCount, Keeps
<1> HIDE DEF k, W, M
\* Nothing changes; some of it is lost; one more is at work; one is counted.
<1>1. ASSUME counters'[k] = counters[k], W' = W, M' = M PROVE EventsCount(t, o)'
  BY <1>1, <1>w, <1>f, <1>g
<1>2. ASSUME counters'[k] = counters[k], W' \subseteq W, ~NoFaults' PROVE EventsCount(t, o)'
  BY <1>2, <1>c, <1>w, <1>m, <1>g, SomeLost
<1>3. ASSUME counters'[k] = counters[k],
             NEW h, h \notin W, W' = W \cup {h}, NEW m, m \notin M, M' = M \cup {m}
      PROVE  EventsCount(t, o)'
  BY <1>3, <1>c, <1>w, <1>f, <1>g, OneMore
<1>4. ASSUME counters'[k] = counters[k] + 1, NEW h \in W, W' = W \ {h}, M' = M
      PROVE  EventsCount(t, o)'
  BY <1>4, <1>c, <1>w, <1>f, <1>g, OneCounted
<1> USE DEF W, M
\* The steps.
<1>p. UNCHANGED processed => M' = M
  BY DEF Marked
<1>q. UNCHANGED counters => counters'[k] = counters[k]
  OBVIOUS
<1>5. CASE /\ UNCHANGED processed /\ \A h \in Handlers : Rests(h)
           /\ \A l \in Counters : l # <<"submitted", "all">> => counters'[l] = counters[l]
  <2>1. W' = W
    BY <1>5 DEF AtWork, Rests
  <2> QED BY <1>1, <1>5, <1>k, <1>p, <2>1
<1>6. CASE Crash
  <2>1. W' \subseteq W /\ UNCHANGED counters
    BY <1>6 DEF Crash, AtWork, Workers, stores
  <2>2. ~NoFaults'
    BY <1>6, FaultsStay DEF Crash
  <2> QED BY <1>2, <1>q, <2>1, <2>2
<1>7. ASSUME NEW h \in Handlers, NEW m \in unacked, Deliver(h, m) PROVE EventsCount(t, o)'
  <2>1. pc[h] = "idle" /\ pc'[h] = "first_time" /\ UNCHANGED <<processed, counters>>
        /\ \A g \in Handlers \ {h} : Rests(g)
    BY <1>7, HandlerSteps
  <2>2. W' = W
    BY <2>1 DEF AtWork, Rests
  <2> QED BY <1>1, <1>p, <1>q, <2>1, <2>2
<1>8. ASSUME NEW h \in Handlers, FirstTime(h) PROVE EventsCount(t, o)'
  <2>1. /\ pc[h] = "first_time" /\ event'[h] = event[h] /\ UNCHANGED counters
        /\ pc'[h] = IF event[h] \in processed \/ event[h].topic = "invoice-submitted"
                    THEN "ack" ELSE "update"
        /\ processed' = processed \cup {event[h]}
        /\ \A g \in Handlers \ {h} : Rests(g)
    BY <1>8, HandlerSteps
  <2>2. CASE event[h] \notin processed /\ event[h].topic = t /\ event[h].outcome = o
    <3>1. t # "invoice-submitted"
      BY DEF Counted
    <3>2. h \notin W /\ W' = W \cup {h}
      BY <2>1, <2>2, <3>1 DEF AtWork, Rests
    <3>3. event[h] \notin M /\ M' = M \cup {event[h]}
      BY <2>1, <2>2 DEF Marked
    <3> QED BY <1>3, <1>q, <2>1, <3>2, <3>3
  <2>3. CASE ~(event[h] \notin processed /\ event[h].topic = t /\ event[h].outcome = o)
    <3>1. M' = M
      BY <2>1, <2>3 DEF Marked
    <3>2. W' = W
      BY <2>1, <2>3 DEF AtWork, Rests
    <3> QED BY <1>1, <1>q, <2>1, <3>1, <3>2
  <2> QED BY <2>2, <2>3
<1>9. ASSUME NEW h \in Handlers, Update(h) PROVE EventsCount(t, o)'
  <2>1. /\ pc[h] = "update" /\ event'[h] = event[h] /\ pc'[h] \in {"bump", "ack"}
        /\ UNCHANGED <<processed, counters>> /\ \A g \in Handlers \ {h} : Rests(g)
    BY <1>9, HandlerSteps
  <2>2. CASE pc'[h] = "bump"
    <3>1. W' = W
      BY <2>1, <2>2 DEF AtWork, Rests
    <3> QED BY <1>1, <1>p, <1>q, <2>1, <3>1
  <2>3. CASE pc'[h] # "bump"
    <3>1. ~NoFaults'
      BY <1>9, <1>f, <2>3, UpdateApplies DEF RecordInv
    <3>2. W' \subseteq W
      BY <2>1, <2>3 DEF AtWork, Rests
    <3> QED BY <1>2, <1>q, <2>1, <3>1, <3>2
  <2> QED BY <2>2, <2>3
<1>10. ASSUME NEW h \in Handlers, Bump(h) PROVE EventsCount(t, o)'
  <2>1. /\ pc[h] = "bump" /\ event'[h] = event[h] /\ pc'[h] = "ack"
        /\ counters' = [counters EXCEPT ![Counter(event[h], updated[h])] = @ + 1]
        /\ UNCHANGED processed /\ \A g \in Handlers \ {h} : Rests(g)
    BY <1>10, HandlerSteps
  <2>2. Worded(event[h]) /\ event[h].topic # "invoice-submitted"
    BY <2>1, EventTyped DEF TypeInv, Holding
  <2>3. Counter(event[h], updated[h]) = k <=> event[h].topic = t /\ event[h].outcome = o
    BY <2>2, CounterIsOwn DEF k
  <2>4. CASE event[h].topic = t /\ event[h].outcome = o
    <3>1. h \in W /\ W' = W \ {h}
      BY <2>1, <2>4 DEF AtWork, Rests
    <3>2. counters'[k] = counters[k] + 1
      BY <1>k, <2>1, <2>3, <2>4 DEF TypeInv, TypeOK
    <3> QED BY <1>4, <1>p, <2>1, <3>1, <3>2
  <2>5. CASE ~(event[h].topic = t /\ event[h].outcome = o)
    <3>1. W' = W
      BY <2>1, <2>5 DEF AtWork, Rests
    <3>2. counters'[k] = counters[k]
      BY <1>k, <2>1, <2>3, <2>5 DEF TypeInv, TypeOK
    <3> QED BY <1>1, <1>p, <2>1, <3>1, <3>2
  <2> QED BY <2>4, <2>5
<1>11. ASSUME NEW h \in Handlers, Ack(h) PROVE EventsCount(t, o)'
  <2>1. pc[h] = "ack" /\ pc'[h] = "idle" /\ UNCHANGED <<processed, counters>>
        /\ \A g \in Handlers \ {h} : Rests(g)
    BY <1>11, HandlerSteps DEF Ack, stores
  <2>2. W' = W
    BY <2>1 DEF AtWork, Rests
  <2> QED BY <1>1, <1>p, <1>q, <2>1, <2>2
<1>12. ASSUME NEW h \in Handlers, Raise(h) PROVE EventsCount(t, o)'
  <2>1. pc'[h] = "idle" /\ UNCHANGED counters /\ \A g \in Handlers \ {h} : Rests(g)
    BY <1>12, HandlerSteps
  <2>2. W' \subseteq W
    BY <2>1 DEF AtWork, Rests
  <2>3. ~NoFaults'
    BY <1>12, FaultsStay DEF Raise
  <2> QED BY <1>2, <1>q, <2>1, <2>2, <2>3
<1> QED BY <1>5, <1>6, <1>7, <1>8, <1>9, <1>10, <1>11, <1>12, QuietSteps DEF HandlerStep

\* Submissions are counted once they are announced, unless a fault intervenes.
LEMMA SubmissionsStep ==
  ASSUME TypeInv, StoryInv, HandsInv, NoFaults => TurnInv,
         [Next]_vars, SubmissionsCount
  PROVE  SubmissionsCount'
<1> DEFINE k == <<"submitted", "all">>
           W == Posting
           M == Stored
<1>c. counters[k] \in Nat /\ k \in Counters
  BY DEF TypeInv, TypeOK, Counters
<1>w. Covers(counters[k], W, M) /\ (NoFaults => Exhausts(counters[k], W, M))
  BY DEF SubmissionsCount, Keeps
<1>f. NoFaults' => NoFaults /\ TurnInv
  BY FaultsStay
<1>g. ASSUME Covers(counters'[k], W', M'), NoFaults' => Exhausts(counters'[k], W', M')
      PROVE  SubmissionsCount'
  BY <1>g DEF SubmissionsCount, Keeps
<1> HIDE DEF k, W, M
\* Nothing changes; some of it is lost; one more is at work; one is counted.
<1>1. ASSUME counters'[k] = counters[k], W' = W, M' = M PROVE SubmissionsCount'
  BY <1>1, <1>w, <1>f, <1>g
<1>2. ASSUME counters'[k] = counters[k], W' \subseteq W, M' = M, ~NoFaults' PROVE SubmissionsCount'
  <2>1. IsFiniteSet(M)
    BY <1>w DEF Covers
  <2> QED BY <1>2, <1>c, <1>w, <1>g, <2>1, SomeLost
<1>3. ASSUME counters'[k] = counters[k],
             NEW c, c \notin W, W' = W \cup {c}, NEW i, i \notin M, M' = M \cup {i}
      PROVE  SubmissionsCount'
  BY <1>3, <1>c, <1>w, <1>f, <1>g, OneMore
<1>4. ASSUME counters'[k] = counters[k] + 1, NEW c \in W, W' = W \ {c}, M' = M
      PROVE  SubmissionsCount'
  BY <1>4, <1>c, <1>w, <1>f, <1>g, OneCounted
<1> USE DEF W, M
\* A record that is written over is stored already.
<1>r. ASSUME NEW i \in Invoices, record[i] # None, NEW r \in InvoiceRecord, Writes(i, r)
      PROVE  M' = M
  <2>1. r # None
    BY IntakeAssumption
  <2> QED BY <1>r, <2>1 DEF Stored, Writes
<1>s. UNCHANGED record => M' = M
  BY DEF Stored
<1>t. UNCHANGED counters => counters'[k] = counters[k]
  OBVIOUS
\* Only one request moves.
<1>u. ASSUME NEW c \in Clients, OtherRequests(c)
      PROVE  /\ W' \subseteq W \cup {c} /\ W \ {c} \subseteq W'
             /\ c \in W' <=> pc'[c] \in PostPcs \cup {"bump_submitted"}
             /\ c \in W <=> pc[c] \in PostPcs \cup {"bump_submitted"}
  BY <1>u DEF Posting, OtherRequests
<1>5. ASSUME NEW c \in Clients, NEW i \in Invoices, Submit(c, i) PROVE SubmissionsCount'
  <2>1. PICK r \in InvoiceRecord :
          record[i] = None /\ OtherRequests(c) /\ pc'[c] = "publish" /\ Writes(i, r)
    BY <1>5, SubmitDoes
  <2>2. pc[c] = "idle" /\ UNCHANGED counters
    BY <1>5 DEF Submit
  <2>3. c \notin W /\ W' = W \cup {c}
    BY <1>u, <2>1, <2>2 DEF PostPcs
  <2>4. i \notin M /\ M' = M \cup {i}
    <3>1. r # None
      BY IntakeAssumption
    <3> QED BY <2>1, <3>1 DEF Stored, Writes
  <2> QED BY <1>3, <1>t, <2>2, <2>3, <2>4
<1>6. ASSUME NEW c \in Clients, NEW i \in Invoices, Resubmit(c, i) PROVE SubmissionsCount'
  <2>1. /\ UNCHANGED <<record, counters>> /\ pc[c] = "idle"
        /\ OtherRequests(c) /\ pc'[c] = "save_resubmitted"
    BY <1>6, ResubmitDoes DEF Resubmit, stores
  <2>2. W' = W
    BY <1>u, <2>1 DEF PostPcs
  <2> QED BY <1>1, <1>s, <1>t, <2>1, <2>2
<1>7. ASSUME NEW c \in Clients, Publish(c) \/ PublishFails(c) \/ SaveEvaluating(c)
      PROVE  SubmissionsCount'
  <2>1. UNCHANGED counters
    BY <1>7 DEF Publish, PublishFails, SaveEvaluating, stores
  <2>2. /\ pc[c] \in PostPcs /\ OtherRequests(c) /\ pc'[c] \in PostPcs \cup {"bump_submitted"}
        /\ UNCHANGED record \/ \E r \in InvoiceRecord : Writes(Own(c), r)
    <3>1. CASE Publish(c) \/ PublishFails(c)
      <4>1. /\ pc[c] = "publish" /\ UNCHANGED record
            /\ \E next \in {"save_evaluating", "save_failed"} : Goto(c, next) /\ UNCHANGED draft
        BY <3>1 DEF Publish, PublishFails, stores, locals
      <4> QED BY <4>1, RequestGoes DEF Goes, PostPcs
    <3>2. CASE SaveEvaluating(c)
      BY <3>2, SaveEvaluatingDoes DEF Goes, PostPcs
    <3> QED BY <1>7, <3>1, <3>2
  <2>3. W' = W
    BY <1>u, <2>2
  <2>4. Own(c) \in Invoices /\ record[Own(c)] # None
    <3>1. record[Own(c)] = draft[c].record
      BY <2>2 DEF StoryInv, Relies
    <3> QED BY <2>2, <3>1, DraftTyped, IntakeAssumption DEF PostPcs
  <2>5. M' = M
    BY <1>r, <1>s, <2>2, <2>4
  <2> QED BY <1>1, <1>t, <2>1, <2>3, <2>5
<1>8. ASSUME NEW c \in Clients, BumpSubmitted(c) PROVE SubmissionsCount'
  <2>1. /\ pc[c] = "bump_submitted" /\ UNCHANGED record /\ counters'[k] = counters[k] + 1
        /\ OtherRequests(c) /\ pc'[c] = "idle"
    BY <1>8, <1>c, RequestEnds DEF BumpSubmitted, Ends, TypeInv, TypeOK, k
  <2>2. c \in W /\ W' = W \ {c}
    BY <1>u, <2>1 DEF PostPcs
  <2> QED BY <1>4, <1>s, <2>1, <2>2
<1>9. ASSUME NEW c \in Clients, SaveFailed(c) PROVE SubmissionsCount'
  <2>1. PICK r \in InvoiceRecord :
          pc[c] = "save_failed" /\ Own(c) \in Invoices /\ Ends(c) /\ Writes(Own(c), r)
    BY <1>9, SaveFailedDoes
  <2>2. UNCHANGED counters /\ OtherRequests(c) /\ pc'[c] = "idle"
    BY <1>9, <2>1 DEF SaveFailed, Ends
  <2>3. W' \subseteq W
    BY <1>u, <2>2 DEF PostPcs
  <2>4. record[Own(c)] # None
    <3>1. record[Own(c)] = draft[c].record
      BY <2>1 DEF StoryInv, Relies, PostPcs
    <3> QED BY <2>1, <3>1, DraftTyped, IntakeAssumption
  <2>5. ~NoFaults'
    BY <1>f, <2>1 DEF TurnInv
  <2> QED BY <1>2, <1>r, <1>t, <2>1, <2>2, <2>3, <2>4, <2>5
<1>10. ASSUME NEW c \in Clients, SaveResubmitted(c) PROVE SubmissionsCount'
  <2>1. /\ pc[c] = "save_resubmitted" /\ Own(c) \in Invoices /\ draft[c].record \in InvoiceRecord
        /\ OtherRequests(c) /\ pc'[c] = "publish_again" /\ Writes(Own(c), draft[c].record)
    BY <1>10, SaveResubmittedDoes DEF Goes
  <2>2. UNCHANGED counters /\ record[Own(c)] # None
    BY <1>10, <2>1 DEF SaveResubmitted, StoryInv, Relies, HasStatus
  <2>3. W' = W
    BY <1>u, <2>1 DEF PostPcs
  <2> QED BY <1>1, <1>r, <1>t, <2>1, <2>2, <2>3
<1>11. ASSUME NEW c \in Clients, PublishAgain(c) \/ PublishAgainFails(c) PROVE SubmissionsCount'
  <2>1. /\ pc[c] = "publish_again" /\ UNCHANGED <<record, counters>>
        /\ OtherRequests(c) /\ pc'[c] = "idle"
    BY <1>11, RequestEnds DEF PublishAgain, PublishAgainFails, Ends, stores
  <2>2. W' = W
    BY <1>u, <2>1 DEF PostPcs
  <2> QED BY <1>1, <1>s, <1>t, <2>1, <2>2
<1>12. ASSUME NEW c \in Clients, RequestFails(c) PROVE SubmissionsCount'
  <2>1. UNCHANGED <<record, counters>> /\ OtherRequests(c) /\ pc'[c] = "idle"
    BY <1>12, RequestEnds DEF RequestFails, Ends, stores
  <2>2. W' \subseteq W
    BY <1>u, <2>1 DEF PostPcs
  <2>3. ~NoFaults'
    BY <1>12, FaultsStay DEF RequestFails
  <2> QED BY <1>2, <1>s, <1>t, <2>1, <2>2, <2>3
<1>13. CASE Crash
  <2>1. UNCHANGED <<record, counters>> /\ W' \subseteq W
    BY <1>13 DEF Crash, Posting, PostPcs, Workers, stores
  <2>2. ~NoFaults'
    BY <1>13, FaultsStay DEF Crash
  <2> QED BY <1>2, <1>s, <1>t, <2>1, <2>2
<1>14. ASSUME NEW h \in Handlers, (\E m \in unacked : Deliver(h, m)) \/ HandlerStep(h) \/ Raise(h)
       PROVE  SubmissionsCount'
  <2>1. W' = W
    BY <1>14, RequestsStay DEF Posting
  <2>2. counters'[k] = counters[k]
    <3>1. CASE Bump(h)
      <4>1. Counter(event[h], updated[h]) # k
        BY DEF Counter, k
      <4> QED BY <1>c, <3>1, <4>1, HandlerSteps DEF TypeInv, TypeOK
    <3>2. CASE ~Bump(h)
      BY <1>14, <3>2, HandlerSteps DEF HandlerStep
    <3> QED BY <3>1, <3>2
  <2>3. M' = M
    <3>1. CASE record' = record
      BY <1>s, <3>1
    <3>2. CASE record' # record
      <4>1. Update(h)
        BY <1>14, <3>2, RequestsStay
      <4>2. PICK i \in Invoices, r \in InvoiceRecord : record[i] # None /\ Writes(i, r)
        BY <3>2, <4>1, UpdateFinds
      <4> QED BY <1>r, <4>2
    <3> QED BY <3>1, <3>2
  <2> QED BY <1>1, <2>1, <2>2, <2>3
<1>15. CASE Downstream(FALSE) \/ Downstream(TRUE) \/ UNCHANGED vars
  <2>1. UNCHANGED <<record, counters, pc>>
    BY <1>15 DEF Downstream, vars, stores
  <2> QED BY <1>1, <1>s, <1>t, <2>1 DEF Posting
<1> QED
  BY <1>5, <1>6, <1>7, <1>8, <1>9, <1>10, <1>11, <1>12, <1>13, <1>14, <1>15 DEF Next, ClientStep

\* What is approved was approved by someone.
Judged ==
  \A i \in Invoices : HasStatus(i, "approved") => record[i].decided_by \in {"router", "approver"}

\* Every step keeps it so.
LEMMA JudgedStep ==
  ASSUME TypeInv, StoryInv, HandsInv, Judged, [Next]_vars
  PROVE  Judged'
<1> SUFFICES ASSUME NEW i \in Invoices, HasStatus(i, "approved")'
             PROVE  record'[i].decided_by \in {"router", "approver"}
  BY DEF Judged
<1>1. CASE record'[i] = record[i]
  BY <1>1 DEF Judged, HasStatus
<1>2. ASSUME NEW j \in Invoices, NEW r \in InvoiceRecord, Writes(j, r), Begins(j, r) \/ TakesOn(j, r)
      PROVE  record'[i] = record[i]
  BY <1>2 DEF Writes, Begins, TakesOn, HasStatus
<1>3. ASSUME NEW c \in Clients, SaveResubmitted(c) PROVE record'[i] = record[i]
  <2>1. Writes(Own(c), draft[c].record) /\ draft[c].record.status = "evaluating"
    BY <1>3, SaveResubmittedDoes DEF StoryInv, Relies
  <2> QED BY <2>1 DEF Writes, HasStatus
<1>4. ASSUME NEW h \in Handlers, Update(h), record'[i] # record[i]
      PROVE  record'[i].decided_by \in {"router", "approver"}
  <2>1. PICK m \in sent, r \in InvoiceRecord :
           /\ Worded(m) /\ m.topic # "invoice-submitted" /\ Writes(m.invoice, r)
           /\ r.status = Target(m) /\ r.decided_by = DecidedBy(m, record[m.invoice])
    BY <1>4, UpdateFinds
  <2>2. record'[i] = r /\ Target(m) = "approved" /\ record'[i].decided_by = DecidedBy(m, record[m.invoice])
    BY <1>4, <2>1 DEF Writes, HasStatus
  <2>3. CASE m.topic = "decision-made"
    <3>1. m.outcome # "human_review"
      BY <2>2, <2>3 DEF Target
    <3> QED BY <2>2, <2>3, <3>1 DEF DecidedBy
  <2>4. CASE m.topic = "approval-resolved"
    <3>1. m.outcome # "needs_info"
      BY <2>2, <2>4 DEF Target
    <3> QED BY <2>2, <2>4, <3>1 DEF DecidedBy
  <2>5. CASE m.topic \in Payments
    <3>1. m.outcome \notin Routes \cup Verdicts
      BY <2>1, <2>5, IntakeAssumption DEF Worded, Payments
    <3> QED BY <2>2, <2>5, <3>1 DEF Target, Payments, Routes, Verdicts
  <2> QED BY <2>1, <2>3, <2>4, <2>5 DEF Worded, Message, Payments
<1> QED BY <1>1, <1>2, <1>3, <1>4, RecordKinds

\* A payment is counted once it is shown, and in its bucket, unless a fault intervenes.
LEMMA PaymentsStep ==
  ASSUME TypeInv, StoryInv, HandsInv, Judged, [Next]_vars,
         NEW by \in {"router", "approver"}, PaymentsCount(by)
  PROVE  PaymentsCount(by)'
<1> DEFINE k == BucketOf(by)
           W == AtPaid(k)
           M == PaidBy(by)
<1>k. k \in Counters /\ k # <<"submitted", "all">>
  BY DEF BucketOf, Counters
<1>c. counters[k] \in Nat
  BY <1>k DEF TypeInv, TypeOK
<1>w. Covers(counters[k], W, M) /\ (NoFaults => Exhausts(counters[k], W, M))
  BY DEF PaymentsCount, Keeps
<1>f. NoFaults' => NoFaults
  BY FaultsStay
<1>g. ASSUME Covers(counters'[k], W', M'), NoFaults' => Exhausts(counters'[k], W', M')
      PROVE  PaymentsCount(by)'
  BY <1>g DEF PaymentsCount, Keeps
\* The bucket of a payment.
<1>b. ASSUME NEW m, NEW r, m.topic \in {"decision-made", "approval-resolved"} \cup Payments
      PROVE  /\ m.topic # "payment-completed" => Counter(m, r) # k
             /\ m.topic = "payment-completed" =>
                  (Counter(m, r) = k <=> (r.decided_by = "router" <=> by = "router"))
  BY <1>b DEF Counter, BucketOf, Payments
<1> HIDE DEF k, W, M
\* Nothing changes; some of it is lost; one more is at work; one is counted.
<1>1. ASSUME counters'[k] = counters[k], W' = W, M' = M PROVE PaymentsCount(by)'
  BY <1>1, <1>w, <1>f, <1>g
<1>2. ASSUME counters'[k] = counters[k], W' \subseteq W, M' = M, ~NoFaults' PROVE PaymentsCount(by)'
  <2>1. IsFiniteSet(M)
    BY <1>w DEF Covers
  <2> QED BY <1>2, <1>c, <1>w, <1>g, <2>1, SomeLost
<1>3. ASSUME counters'[k] = counters[k],
             NEW h, h \notin W, W' = W \cup {h}, NEW i, i \notin M, M' = M \cup {i}
      PROVE  PaymentsCount(by)'
  BY <1>3, <1>c, <1>w, <1>f, <1>g, OneMore
<1>4. ASSUME counters'[k] = counters[k] + 1, NEW h \in W, W' = W \ {h}, M' = M
      PROVE  PaymentsCount(by)'
  BY <1>4, <1>c, <1>w, <1>f, <1>g, OneCounted
<1> USE DEF W, M
\* What is not shown as paid, before or after.
<1>r. ASSUME NEW i \in Invoices, NEW r, Writes(i, r), ~HasStatus(i, "paid"), r.status # "paid"
      PROVE  M' = M
  BY <1>r DEF PaidBy, HasStatus, Writes
<1>s. UNCHANGED record => M' = M
  BY DEF PaidBy, HasStatus
<1>t. ASSUME \A h \in Handlers : ~Update(h) PROVE M' = M
  <2>1. ASSUME NEW i \in Invoices, NEW r \in InvoiceRecord, Writes(i, r), Begins(i, r) \/ TakesOn(i, r)
        PROVE  M' = M
    BY <1>r, <2>1 DEF Begins, TakesOn, HasStatus
  <2>2. ASSUME NEW c \in Clients, SaveResubmitted(c) PROVE M' = M
    <3>1. /\ pc[c] = "save_resubmitted" /\ Own(c) \in Invoices
          /\ Writes(Own(c), draft[c].record)
      BY <2>2, SaveResubmittedDoes
    <3>2. HasStatus(Own(c), "needs_info") /\ draft[c].record.status = "evaluating"
      BY <3>1 DEF StoryInv, Relies
    <3> QED BY <1>r, <3>1, <3>2 DEF HasStatus
  <2> QED BY <1>s, <1>t, <2>1, <2>2, RecordKinds
<1>u. UNCHANGED counters => counters'[k] = counters[k]
  OBVIOUS
\* Only one handler moves.
<1>v. ASSUME NEW h \in Handlers, \A g \in Handlers \ {h} : Rests(g)
      PROVE  W' \subseteq W \cup {h} /\ W \ {h} \subseteq W'
  BY <1>v DEF AtPaid, Rests
<1>5. CASE /\ UNCHANGED processed /\ \A h \in Handlers : Rests(h)
           /\ \A l \in Counters : l # <<"submitted", "all">> => counters'[l] = counters[l]
  <2>1. W' = W
    BY <1>5 DEF AtPaid, Rests
  <2>2. \A h \in Handlers : ~Update(h)
    BY <1>5, HandlerSteps DEF Rests
  <2> QED BY <1>1, <1>5, <1>k, <1>t, <2>1, <2>2
<1>6. CASE Crash
  <2>1. W' \subseteq W /\ UNCHANGED <<record, counters>>
    BY <1>6 DEF Crash, AtPaid, Workers, stores
  <2>2. ~NoFaults'
    BY <1>6, FaultsStay DEF Crash
  <2> QED BY <1>2, <1>s, <1>u, <2>1, <2>2
<1>7. ASSUME NEW h \in Handlers, (\E m \in unacked : Deliver(h, m)) \/ FirstTime(h) \/ Ack(h)
      PROVE  PaymentsCount(by)'
  <2>1. /\ pc[h] # "bump" /\ pc'[h] # "bump" /\ UNCHANGED counters
        /\ \A g \in Handlers \ {h} : Rests(g)
    BY <1>7, HandlerSteps DEF Ack
  <2>2. W' = W
    BY <1>v, <2>1 DEF AtPaid
  <2>3. UNCHANGED record
    BY <1>7 DEF Deliver, FirstTime, Ack, stores
  <2> QED BY <1>1, <1>s, <1>u, <2>1, <2>2, <2>3
<1>8. ASSUME NEW h \in Handlers, Update(h) PROVE PaymentsCount(by)'
  <2>1. /\ pc[h] = "update" /\ event'[h] = event[h] /\ pc'[h] \in {"bump", "ack"}
        /\ UNCHANGED counters /\ \A g \in Handlers \ {h} : Rests(g)
    BY <1>8, HandlerSteps
  <2>2. h \notin W
    BY <2>1 DEF AtPaid
  <2>3. CASE record' = record /\ pc'[h] # "bump"
    <3>1. W' = W
      BY <1>v, <2>1, <2>2, <2>3 DEF AtPaid
    <3> QED BY <1>1, <1>s, <1>u, <2>1, <2>3, <3>1
  <2>4. CASE record' # record \/ pc'[h] = "bump"
    <3>1. PICK m \in sent :
             /\ m = event[h] /\ pc'[h] = "bump"
             /\ Worded(m) /\ m.topic # "invoice-submitted" /\ m.invoice \in Invoices
             /\ record[m.invoice] # None /\ Expected(m, record[m.invoice].status)
             /\ \E r \in InvoiceRecord :
                  /\ updated'[h] = r
                  /\ Writes(m.invoice, r)
                  /\ r.status = Target(m) /\ r.decided_by = DecidedBy(m, record[m.invoice])
      BY <1>8, <2>4, UpdateFinds
    <3>2. PICK r \in InvoiceRecord :
             /\ updated'[h] = r /\ Writes(m.invoice, r)
             /\ r.status = Target(m) /\ r.decided_by = DecidedBy(m, record[m.invoice])
      BY <3>1
    <3>3. m.topic \in {"decision-made", "approval-resolved"} \cup Payments
      BY <3>1 DEF Worded, Message, Payments
    <3>p. m.topic \in Payments => m.outcome \notin Routes \cup Verdicts
      BY <3>1, IntakeAssumption DEF Worded, Payments
    <3>4. ~HasStatus(m.invoice, "paid")
      BY <3>1 DEF HasStatus, Expected
    <3>5. event'[h] = m
      BY <2>1, <3>1
    <3>6. h \in W' <=> m.topic = "payment-completed" /\ Counter(m, r) = k
      BY <3>1, <3>2, <3>5 DEF AtPaid
    <3>7. CASE m.topic # "payment-completed"
      <4>1. W' = W
        BY <1>v, <2>1, <2>2, <3>6, <3>7
      <4>2. Target(m) # "paid"
        <5>1. CASE m.topic = "payment-failed"
          BY <5>1, <3>p DEF Target, Payments, Routes, Verdicts
        <5>2. CASE m.topic \in {"decision-made", "approval-resolved"}
          BY <5>2, <3>1 DEF Target, Worded, Routes, Verdicts
        <5> QED BY <3>3, <3>7, <5>1, <5>2 DEF Payments
      <4>3. M' = M
        BY <1>r, <3>1, <3>2, <3>4, <4>2
      <4> QED BY <1>1, <1>u, <2>1, <4>1, <4>3
    <3>8. CASE m.topic = "payment-completed"
      <4>1. /\ r.status = "paid" /\ r.decided_by = record[m.invoice].decided_by
            /\ record[m.invoice].status = "approved"
        <5>1. Target(m) = "paid"
          BY <3>p, <3>8 DEF Target, Payments, Routes, Verdicts
        <5>2. DecidedBy(m, record[m.invoice]) = record[m.invoice].decided_by
          BY <3>8 DEF DecidedBy
        <5>3. record[m.invoice].status = "approved"
          BY <3>1, <3>8 DEF Expected
        <5> QED BY <3>2, <5>1, <5>2, <5>3
      <4>2. r.decided_by \in {"router", "approver"}
        BY <3>1, <4>1 DEF Judged, HasStatus
      <4>3. r # None /\ record'[m.invoice] = r
        BY <3>2, IntakeAssumption DEF Writes
      <4>4. Counter(m, r) = k <=> r.decided_by = by
        BY <1>b, <3>3, <3>8, <4>2
      <4>5. CASE r.decided_by = by
        <5>1. W' = W \cup {h}
          BY <1>v, <2>1, <3>6, <3>8, <4>4, <4>5
        <5>2. m.invoice \notin M
          BY <3>4 DEF PaidBy
        <5>3. M' = M \cup {m.invoice}
          BY <3>1, <3>2, <4>1, <4>3, <4>5 DEF PaidBy, HasStatus, Writes
        <5> QED BY <1>3, <1>u, <2>1, <2>2, <5>1, <5>2, <5>3
      <4>6. CASE r.decided_by # by
        <5>1. W' = W
          BY <1>v, <2>1, <2>2, <3>6, <4>4, <4>6
        <5>2. M' = M
          BY <3>1, <3>2, <3>4, <4>1, <4>3, <4>6 DEF PaidBy, HasStatus, Writes
        <5> QED BY <1>1, <1>u, <2>1, <5>1, <5>2
      <4> QED BY <4>5, <4>6
    <3> QED BY <3>7, <3>8
  <2> QED BY <2>3, <2>4
<1>9. ASSUME NEW h \in Handlers, Bump(h) PROVE PaymentsCount(by)'
  <2>1. /\ pc[h] = "bump" /\ event'[h] = event[h] /\ pc'[h] = "ack"
        /\ counters' = [counters EXCEPT ![Counter(event[h], updated[h])] = @ + 1]
        /\ \A g \in Handlers \ {h} : Rests(g)
    BY <1>9, HandlerSteps
  <2>2. event[h].topic \in {"decision-made", "approval-resolved"} \cup Payments
    <3>1. Worded(event[h]) /\ event[h].topic # "invoice-submitted"
      BY <2>1, EventTyped DEF TypeInv, Holding
    <3> QED BY <3>1 DEF Worded, Message, Payments
  <2>3. M' = M
    <3>1. UNCHANGED record
      BY <1>9 DEF Bump
    <3> QED BY <1>s, <3>1
  <2>4. h \notin W'
    BY <2>1 DEF AtPaid
  <2>5. h \in W <=> Counter(event[h], updated[h]) = k
    BY <1>b, <2>1, <2>2 DEF AtPaid
  <2>6. CASE Counter(event[h], updated[h]) = k
    <3>1. h \in W /\ W' = W \ {h}
      BY <1>v, <2>1, <2>4, <2>5, <2>6
    <3>2. counters'[k] = counters[k] + 1
      BY <1>k, <2>1, <2>6 DEF TypeInv, TypeOK
    <3> QED BY <1>4, <2>3, <3>1, <3>2
  <2>7. CASE Counter(event[h], updated[h]) # k
    <3>1. W' = W
      BY <1>v, <2>1, <2>4, <2>5, <2>7
    <3>2. counters'[k] = counters[k]
      BY <1>k, <2>1, <2>7 DEF TypeInv, TypeOK
    <3> QED BY <1>1, <2>3, <3>1, <3>2
  <2> QED BY <2>6, <2>7
<1>10. ASSUME NEW h \in Handlers, Raise(h) PROVE PaymentsCount(by)'
  <2>1. pc'[h] = "idle" /\ UNCHANGED <<record, counters>> /\ \A g \in Handlers \ {h} : Rests(g)
    BY <1>10, HandlerSteps DEF Raise
  <2>2. W' \subseteq W
    BY <1>v, <2>1 DEF AtPaid
  <2>3. ~NoFaults'
    BY <1>10, FaultsStay DEF Raise
  <2> QED BY <1>2, <1>s, <1>u, <2>1, <2>2, <2>3
<1> QED BY <1>5, <1>6, <1>7, <1>8, <1>9, <1>10, QuietSteps DEF HandlerStep

\* The counters start at what happened, which is nothing.
LEMMA CountInit == ASSUME Init PROVE CountInv
<1>1. IsFiniteSet({}) /\ Cardinality({}) = 0
  BY FS_EmptySet
<1>2. ASSUME NEW k \in Counters PROVE Keeps(counters[k], {}, {})
  <2>1. counters[k] = 0
    BY DEF Init
  <2> QED BY <1>1, <2>1 DEF Keeps, Covers, Exhausts
<1>3. SubmissionsCount
  <2>1. Posting = {} /\ Stored = {} /\ <<"submitted", "all">> \in Counters
    BY DEF Init, Posting, PostPcs, Stored, Workers, Counters
  <2> QED BY <1>2, <2>1 DEF SubmissionsCount
<1>4. ASSUME NEW t, NEW o, <<t, o>> \in Counted PROVE EventsCount(t, o)
  <2>1. AtWork(t, o) = {} /\ Marked(t, o) = {}
    BY DEF Init, AtWork, Marked, Workers
  <2>2. KeyOf(t, o) \in Counters
    BY <1>4 DEF Counted, KeyOf, Counters
  <2> QED BY <1>2, <2>1, <2>2 DEF EventsCount
<1>5. ASSUME NEW by \in {"router", "approver"} PROVE PaymentsCount(by)
  <2>1. AtPaid(BucketOf(by)) = {} /\ PaidBy(by) = {} /\ BucketOf(by) \in Counters
    BY DEF Init, AtPaid, PaidBy, HasStatus, Workers, BucketOf, Counters
  <2> QED BY <1>2, <2>1 DEF PaymentsCount
<1>6. IsFiniteSet(sent)
  BY <1>1 DEF Init
<1> QED BY <1>3, <1>4, <1>5, <1>6 DEF CountInv

\* Every step keeps each counter with the events that it counts.
LEMMA CountStep ==
  ASSUME TypeInv, StoryInv, HandsInv, Judged, MarkInv, MarkInv',
         NoFaults => BusInv /\ RecordInv /\ CauseInv /\ TurnInv /\ PaceInv, [Next]_vars, CountInv
  PROVE  CountInv'
<1>1. IsFiniteSet(sent')
  BY SentFinite DEF CountInv
<1>2. SubmissionsCount'
  BY SubmissionsStep DEF CountInv
<1>3. ASSUME NEW t, NEW o, <<t, o>> \in Counted PROVE EventsCount(t, o)'
  BY <1>1, <1>3, EventsStep DEF CountInv
<1>4. ASSUME NEW by \in {"router", "approver"} PROVE PaymentsCount(by)'
  BY PaymentsStep DEF CountInv
<1> QED BY <1>1, <1>2, <1>3, <1>4 DEF CountInv, Counted

\* What is kept count of is not counted more often than it happened, and just as often once
\* nothing is on its way.
LEMMA WhatIsKept ==
  ASSUME NEW n \in Nat, NEW W, NEW M, Keeps(n, W, M)
  PROVE  n <= Cardinality(M) /\ (NoFaults /\ W = {} => n = Cardinality(M))
<1>1. Cardinality(W) \in Nat /\ Cardinality(M) \in Nat /\ Cardinality({}) = 0
  BY FS_CardinalityType, FS_EmptySet DEF Keeps, Covers
<1> QED BY <1>1 DEF Keeps, Covers, Exhausts

\* Counters that go with their events are what the dashboard promises.
LEMMA CountsAreTrue ==
  ASSUME TypeInv, MarkInv, CountInv
  PROVE  DashboardIsTrue
<1> SUFFICES ASSUME NEW k \in Counters
             PROVE  counters[k] <= True(k) /\ (AtRest /\ NoFaults => counters[k] = True(k))
  BY DEF DashboardIsTrue, NoFaults
<1>c. counters[k] \in Nat
  BY DEF TypeInv, TypeOK
<1>r. AtRest => /\ Posting = {} /\ (\A t, o : AtWork(t, o) = {}) /\ \A l : AtPaid(l) = {}
                /\ processed = sent
  BY DEF AtRest, Posting, PostPcs, AtWork, AtPaid, Workers, MarkInv
<1>1. CASE k = <<"submitted", "all">>
  <2>1. True(k) = Cardinality(Stored)
    BY <1>1 DEF True, Stored
  <2>2. Keeps(counters[k], Posting, Stored)
    BY <1>1 DEF CountInv, SubmissionsCount
  <2> QED BY <1>c, <1>r, <2>1, <2>2, WhatIsKept
<1>2. ASSUME NEW by \in {"router", "approver"}, k = BucketOf(by)
      PROVE  counters[k] <= True(k) /\ (AtRest /\ NoFaults => counters[k] = True(k))
  <2>1. True(k) = Cardinality(PaidBy(by))
    <3>1. k[1] = "paid" /\ by = IF k[2] = "auto" THEN "router" ELSE "approver"
      BY <1>2 DEF BucketOf
    <3>2. True(k) = Paid(by)
      BY <3>1 DEF True
    <3> QED BY <3>2 DEF Paid, PaidBy
  <2>2. Keeps(counters[k], AtPaid(k), PaidBy(by))
    BY <1>2 DEF CountInv, PaymentsCount
  <2> QED BY <1>c, <1>r, <2>1, <2>2, WhatIsKept
<1>3. ASSUME NEW t, NEW o, <<t, o>> \in Counted, k = KeyOf(t, o), True(k) = Published(t, o)
      PROVE  counters[k] <= True(k) /\ (AtRest /\ NoFaults => counters[k] = True(k))
  <2> DEFINE P == {m \in sent : m.topic = t /\ m.outcome = o}
             M == Marked(t, o)
  <2>1. True(k) = Cardinality(P)
    BY <1>3 DEF Published
  <2>2. M \subseteq P /\ P \subseteq sent /\ (AtRest => M = P)
    BY <1>r DEF Marked, MarkInv
  <2>3. Keeps(counters[k], AtWork(t, o), M)
    BY <1>3 DEF CountInv, EventsCount
  <2> HIDE DEF P, M
  <2>4. Cardinality(M) <= Cardinality(P) /\ Cardinality(M) \in Nat /\ Cardinality(P) \in Nat
    <3>1. IsFiniteSet(P)
      BY <2>2, FS_Subset DEF CountInv
    <3> QED BY <2>2, <3>1, FS_Subset, FS_CardinalityType
  <2>5. counters[k] <= Cardinality(M)
        /\ (NoFaults /\ AtWork(t, o) = {} => counters[k] = Cardinality(M))
    BY <1>c, <2>3, WhatIsKept
  <2> QED BY <1>c, <1>r, <2>1, <2>2, <2>4, <2>5
<1>4. CASE k = <<"payment_failed", "all">>
  <2>1. /\ <<"payment-failed", None>> \in Counted /\ k = KeyOf("payment-failed", None)
        /\ True(k) = Published("payment-failed", None)
    BY <1>4 DEF Counted, KeyOf, True
  <2> QED BY <1>3, <2>1
<1>5. CASE k \in {"decided"} \X Routes
  <2>1. PICK o \in Routes : k = <<"decided", o>>
    BY <1>5
  <2>2. /\ <<"decision-made", o>> \in Counted /\ k = KeyOf("decision-made", o)
        /\ True(k) = Published("decision-made", o)
    BY <2>1 DEF Counted, KeyOf, True
  <2> QED BY <1>3, <2>2
<1>6. CASE k \in {"verdict"} \X Verdicts
  <2>1. PICK o \in Verdicts : k = <<"verdict", o>>
    BY <1>6
  <2>2. /\ <<"approval-resolved", o>> \in Counted /\ k = KeyOf("approval-resolved", o)
        /\ True(k) = Published("approval-resolved", o)
    BY <2>1 DEF Counted, KeyOf, True
  <2> QED BY <1>3, <2>2
<1>7. k = <<"paid", "auto">> => k = BucketOf("router")
  BY DEF BucketOf
<1>8. k = <<"paid", "human">> => k = BucketOf("approver")
  BY DEF BucketOf
<1> QED BY <1>1, <1>2, <1>4, <1>5, <1>6, <1>7, <1>8 DEF Counters

\* However the events arrive, whatever fails and however often the other services repeat
\* themselves, the dashboard never counts what did not happen, and it counts all that did
\* once nothing is on its way, if nothing failed, overtook or was repeated, as long as no
\* two resubmissions of one invoice have both asked and not yet written (api.py:41-110,
\* status.py:15-63).
THEOREM DashboardStaysTrue == Spec /\ []ResubmissionsDoNotOverlap => []DashboardIsTrue
<1> DEFINE Kept   == StoryInv /\ HandsInv /\ (NoRepeats => TaleInv)
           Held   == MarkInv /\ Judged /\ CountInv
           InPace == NoFaults => CauseInv /\ FreshInv /\ TurnInv /\ PaceInv
<1>0. NoFaults => NoRepeats
  BY DEF NoFaults, NoRepeats, Suffered, AllFaultKinds
<1>1. Init => Held /\ InPace
  BY NoFaultInit, CountInit
  DEF Init, CauseInv, MarkInv, FreshInv, PaceInv, Judged, HasStatus, Workers
<1>2. TypeInv /\ TypeInv' /\ Kept /\ Held /\ InPace /\ [Next]_vars => Held' /\ InPace'
  <2> SUFFICES ASSUME TypeInv, TypeInv', Kept, Held, InPace, [Next]_vars
               PROVE  Held' /\ InPace'
    OBVIOUS
  <2>1. MarkInv' /\ Judged'
    BY MarkStep, JudgedStep
  <2>2. InPace'
    <3> SUFFICES ASSUME NoFaults' PROVE CauseInv' /\ FreshInv' /\ TurnInv' /\ PaceInv'
      OBVIOUS
    <3>1. NoFaults /\ NoRepeats'
      BY FaultsStay
    <3>2. TaleInv /\ CauseInv /\ FreshInv /\ TurnInv /\ PaceInv
      BY <1>0, <3>1
    <3> QED BY <3>1, <3>2, CauseStep, FreshStep, TurnStep, PaceStep DEF TaleInv, RecordInv
  <2>3. CountInv'
    BY <1>0, <2>1, CountStep DEF TaleInv
  <2> QED BY <2>1, <2>2, <2>3
<1>3. TypeInv /\ Held => DashboardIsTrue
  BY CountsAreTrue
<1> HIDE DEF Held, InPace
<1> QED BY <1>1, <1>2, <1>3, TaleIsKept, TypeInvariant, PTL DEF Spec

--------------------------------------------------------------------------------
(* The story across the services, as long as none of them answers again after *)
(* an answer that the broker took although its publish raised (AnsweredOnce). *)
(* Their invariants are proved together: approval publishes one verdict on a  *)
(* decision and payment one outcome of an invoice because of the order in     *)
(* which intake lets submissions through, and the other way round.            *)

\* How often which fault happened.
CountedFaults ==
  /\ faults \in [AllFaultKinds -> Nat]
  /\ apFaults \in [Approval!AllFaultKinds -> Nat]

\* Up to here no service answered again ...
OnceSoFar == CountedFaults /\ AnsweredOnce

\* ... and none does in this step.
PlainStep == OnceSoFar /\ AnsweredOnce' /\ [FlowNext]_flowVars

\* What intake's theorems rest on.
IntakeInv ==
  /\ TypeInv /\ TaleInv /\ CauseInv /\ MarkInv /\ FreshInv
  /\ NoFaults => TurnInv /\ PaceInv

\* The decisions that ask for a human, and the events that ask for a payment.
Asked   == {m \in sent : m.topic = "decision-made" /\ m.outcome = "human_review"}
GoAhead == {m \in sent : m.topic \in Answers /\ m.outcome \in {"auto_approve", "approved"}}

--------------------------------------------------------------------------------
(* The approval service in the story: its types.                             *)

\* A handler works on a decision that asks for a human until it acknowledges it.
ReviewHandler(h) ==
  /\ apPc[h] \in {"idle", "first_time", "save_new", "inspect", "reopen", "add", "ack"}
  /\ apPc[h] # "idle" => apEvent[h] \in apUnacked /\ apEvent[h] \in Asked
  /\ apPc[h] = "idle" => apEvent[h] = None

ReviewApprover(a) ==
  /\ apPc[a] \in {"idle", "resolve", "publish", "revert", "requeue", "dequeue"}
  /\ apPc[a] # "idle" => request[a] \in Approval!Request
  /\ apPc[a] \in {"publish", "revert"} => request[a].review \in Decisions

ReviewTypeOK ==
  /\ apUnacked \subseteq Decisions
  /\ escalation \in [Invoices -> Approval!Escalation \cup {None}]
  /\ queue \subseteq Invoices
  /\ overtaken \in [Invoices -> SUBSET Approval!SettledPcs]
  /\ apPc \in [Handlers \cup Approvers -> {"idle"} \cup Approval!HandlerPcs \cup Approval!ApproverPcs]
  /\ apEvent \in [Handlers -> Decisions \cup {None}]
  /\ request \in [Approvers -> Approval!Request \cup {None}]

ReviewType ==
  /\ ReviewTypeOK
  /\ apUnacked \subseteq sent /\ apProcessed \subseteq sent
  /\ \A h \in Handlers : ReviewHandler(h)
  /\ \A a \in Approvers : ReviewApprover(a)

\* The service rests: events are published elsewhere, decisions for the first time.
ReviewRests ==
  /\ UNCHANGED approvalOwn
  /\ \E N \in SUBSET Message :
       /\ sent' = sent \cup N
       /\ apUnacked' = apUnacked \cup (N \cap Decisions)
       /\ \A m \in N :
            /\ m.topic # "approval-resolved"
            /\ m.topic = "decision-made" =>
                 /\ ~Answered({"decision-made"}, m.invoice, m.version)
                 /\ \E n \in sent : n.topic = "invoice-submitted" /\ Fellow(m, n)

\* It acts on its own.
ReviewActs ==
  /\ \/ \E e \in apUnacked : Approval!Filter(e) \/ \E h \in Handlers : Approval!Deliver(h, e)
     \/ \E h \in Handlers : Approval!Subscriber(h)
     \/ \E a \in Approvers :
          \/ Approval!Resolve(a) \/ Approval!Dequeue(a) \/ Approval!Revert(a)
          \/ Approval!Requeue(a) \/ Approval!PublishFails(a)
          \/ \E i \in queue, verdict \in Verdicts : Approval!Post(a, i, verdict)
  /\ UNCHANGED vars

\* A message that is put together is worded as its parts.
LEMMA MsgTyped ==
  ASSUME NEW t \in {"invoice-submitted", "decision-made", "approval-resolved",
                    "payment-completed", "payment-failed"},
         NEW i \in Invoices, NEW v \in Versions, NEW o \in Routes \cup Verdicts \cup {None}
  PROVE  Msg(t, i, v, o) \in Message
BY IntakeAssumption DEF Msg, Message

\* The payment service acts on its own.
SagaActs ==
  /\ \/ \E e \in paUnacked : Payment!Filter(e) \/ \E h \in Handlers : Payment!Deliver(h, e)
     \/ \E h \in Handlers :
          \/ Payment!FirstTime(h) \/ Payment!Load(h) \/ Payment!Mark(h) \/ Payment!Reserve(h)
          \/ Payment!Execute(h) \/ Payment!Release(h) \/ Payment!Ack(h) \/ Payment!Forget(h)
          \/ Payment!Raise(h)
  /\ UNCHANGED vars

\* Intake makes a step of its module, and publishes submissions only.
IntakeMoves ==
  /\ [Next]_vars
  /\ UNCHANGED <<approvalVars, paymentVars>>
  /\ \E N \in SUBSET {m \in Message : m.topic = "invoice-submitted"} : sent' = sent \cup N

\* The steps of the story, by who makes them.
LEMMA StepKinds ==
  ASSUME [FlowNext]_flowVars
  PROVE  \/ [Next]_vars /\ UNCHANGED <<approvalVars, paymentVars>>
         \/ \E again \in BOOLEAN : DecisionStep(again)
         \/ ReviewActs /\ UNCHANGED paymentVars
         \/ \E a \in Approvers : ApprovalPublish(a) \/ VerdictFails(a)
         \/ SagaActs /\ UNCHANGED approvalVars
         \/ \E h \in Handlers : PaymentPublish(h)
<1>1. CASE IntakeStep
  BY <1>1 DEF IntakeStep, Next
<1>2. CASE ApprovalStep
  BY <1>2 DEF ApprovalStep, ReviewActs
<1>3. CASE PaymentStep
  BY <1>3 DEF PaymentStep, SagaActs
<1>4. CASE People
  BY <1>4 DEF People, ReviewActs, Next
<1>5. CASE Faults
  BY <1>5 DEF Faults, SagaActs, Next
<1>6. CASE UNCHANGED flowVars
  BY <1>6 DEF flowVars
<1> QED BY <1>1, <1>2, <1>3, <1>4, <1>5, <1>6 DEF FlowNext, Progress

\* A step counts one fault of a service or none.
LEMMA CountedStep ==
  ASSUME CountedFaults, [FlowNext]_flowVars
  PROVE  /\ CountedFaults'
         /\ \A k \in AllFaultKinds : faults[k] <= faults'[k]
         /\ \A k \in Approval!AllFaultKinds : apFaults[k] <= apFaults'[k]
         /\ \A kind : Fault(kind) => faults'[kind] > 0
         /\ \A kind : Approval!Fault(kind) => apFaults'[kind] > 0
<1>1. ASSUME NEW kind, Fault(kind)
      PROVE  /\ faults' \in [AllFaultKinds -> Nat] /\ faults'[kind] > 0
             /\ \A k \in AllFaultKinds : faults[k] <= faults'[k]
  BY <1>1, IntakeAssumption DEF Fault, CountedFaults
<1>2. ASSUME NEW kind, Approval!Fault(kind)
      PROVE  /\ apFaults' \in [Approval!AllFaultKinds -> Nat] /\ apFaults'[kind] > 0
             /\ \A k \in Approval!AllFaultKinds : apFaults[k] <= apFaults'[k]
  BY <1>2, FlowAssumption DEF Approval!Fault, Approval!AllFaultKinds, CountedFaults
<1>3. UNCHANGED faults \/ \E kind : Fault(kind)
  <2>1. CASE [Next]_vars
    BY <2>1, FaultsMove
  <2>2. CASE \E again \in BOOLEAN : DecisionStep(again)
    BY <2>2 DEF DecisionStep
  <2>3. CASE ReviewActs \/ SagaActs
    BY <2>3 DEF ReviewActs, SagaActs, vars
  <2>4. CASE \E a \in Approvers : ApprovalPublish(a) \/ VerdictFails(a)
    BY <2>4 DEF ApprovalPublish, VerdictFails, intakeOwn
  <2>5. CASE \E h \in Handlers : PaymentPublish(h)
    BY <2>5 DEF PaymentPublish, intakeOwn
  <2> QED BY <2>1, <2>2, <2>3, <2>4, <2>5, StepKinds
<1>4. UNCHANGED apFaults \/ \E kind : Approval!Fault(kind)
  <2>1. CASE UNCHANGED approvalVars
    BY <2>1 DEF approvalVars, approvalOwn
  <2>2. CASE \E again \in BOOLEAN : DecisionStep(again)
    BY <2>2 DEF DecisionStep, approvalOwn
  <2>3. CASE \E h \in Handlers : PaymentPublish(h)
    BY <2>3 DEF PaymentPublish, approvalOwn
  <2>4. ASSUME NEW a \in Approvers,
               \/ Approval!Resolve(a) \/ Approval!Dequeue(a) \/ Approval!Revert(a)
               \/ Approval!Requeue(a) \/ Approval!PublishFails(a) \/ Approval!Publish(a)
               \/ \E i \in queue, verdict \in Verdicts : Approval!Post(a, i, verdict)
        PROVE  UNCHANGED apFaults \/ \E kind : Approval!Fault(kind)
    BY <2>4 DEF Approval!Resolve, Approval!Dequeue, Approval!Revert, Approval!Requeue,
                Approval!PublishFails, Approval!Publish, Approval!Post
  <2>5. ASSUME NEW h \in Handlers,
               (\E e \in apUnacked : Approval!Deliver(h, e)) \/ Approval!Subscriber(h)
        PROVE  UNCHANGED apFaults \/ \E kind : Approval!Fault(kind)
    BY <2>5 DEF Approval!Deliver, Approval!Subscriber, Approval!FirstTime, Approval!SaveNew,
                Approval!Inspect, Approval!Finds, Approval!Reopen, Approval!Add, Approval!Ack,
                Approval!Forget
  <2>6. CASE \E e \in apUnacked : Approval!Filter(e)
    BY <2>6 DEF Approval!Filter
  <2>7. CASE ReviewActs
    BY <2>4, <2>5, <2>6, <2>7 DEF ReviewActs
  <2>8. CASE \E a \in Approvers : ApprovalPublish(a) \/ VerdictFails(a)
    BY <2>4, <2>8 DEF ApprovalPublish, VerdictFails
  <2> QED BY <2>1, <2>2, <2>3, <2>7, <2>8, StepKinds
<1>5. /\ faults' \in [AllFaultKinds -> Nat]
      /\ \A k \in AllFaultKinds : faults[k] <= faults'[k]
  BY <1>1, <1>3 DEF CountedFaults
<1>6. /\ apFaults' \in [Approval!AllFaultKinds -> Nat]
      /\ \A k \in Approval!AllFaultKinds : apFaults[k] <= apFaults'[k]
  BY <1>2, <1>4 DEF CountedFaults
<1> QED BY <1>1, <1>2, <1>5, <1>6 DEF CountedFaults

\* A service that answered again did so for good.
LEMMA AgainForGood ==
  ASSUME CountedFaults, [FlowNext]_flowVars, AnsweredOnce'
  PROVE  PlainStep /\ NoRepeats' /\ ~Fault("again") /\ ~Approval!Fault("lost")
<1>1. /\ "again" \in AllFaultKinds /\ "lost" \in Approval!AllFaultKinds
      /\ faults["again"] \in Nat /\ apFaults["lost"] \in Nat
      /\ faults'["again"] \in Nat /\ apFaults'["lost"] \in Nat
  BY CountedStep DEF CountedFaults, AllFaultKinds, Approval!AllFaultKinds
<1>2. ~(faults'["again"] > 0) /\ ~(apFaults'["lost"] > 0)
  BY DEF AnsweredOnce, Suffered, Approval!Suffered
<1>3. faults["again"] <= faults'["again"] /\ apFaults["lost"] <= apFaults'["lost"]
  BY <1>1, CountedStep
<1>4. ~(faults["again"] > 0) /\ ~(apFaults["lost"] > 0)
  BY <1>1, <1>2, <1>3
<1>5. ~Fault("again") /\ ~Approval!Fault("lost")
  BY <1>2, CountedStep
<1> QED BY <1>2, <1>4, <1>5
    DEF PlainStep, OnceSoFar, AnsweredOnce, NoRepeats, Suffered, Approval!Suffered

\* The steps in which no service answers again.
LEMMA StoryKinds ==
  ASSUME TypeInv, PlainStep
  PROVE  \/ IntakeMoves
         \/ DecisionStep(FALSE)
         \/ ReviewActs /\ UNCHANGED paymentVars
         \/ \E a \in Approvers : ApprovalPublish(a)
         \/ SagaActs /\ UNCHANGED approvalVars
         \/ \E h \in Handlers : PaymentPublish(h)
<1>1. ASSUME UNCHANGED sent, [Next]_vars, UNCHANGED <<approvalVars, paymentVars>> PROVE IntakeMoves
  <2>1. {} \in SUBSET {m \in Message : m.topic = "invoice-submitted"} /\ sent' = sent \cup {}
    BY <1>1
  <2> QED BY <1>1, <2>1 DEF IntakeMoves
<1>2. ASSUME NEW c \in Clients, pc[c] # "idle", [Next]_vars, UNCHANGED <<approvalVars, paymentVars>>,
             Broadcast(Msg("invoice-submitted", Own(c), draft[c].record.version, None))
      PROVE  IntakeMoves
  <2> DEFINE m == Msg("invoice-submitted", Own(c), draft[c].record.version, None)
  <2>1. m \in Message /\ m.topic = "invoice-submitted"
    BY <1>2, DraftTyped, MsgTyped, MsgParts
  <2>2. sent' = sent \cup {m}
    BY <1>2 DEF Broadcast
  <2> HIDE DEF m
  <2>3. {m} \in SUBSET {n \in Message : n.topic = "invoice-submitted"}
    BY <2>1
  <2> QED BY <1>2, <2>2, <2>3 DEF IntakeMoves
<1>3. ASSUME NEW c \in Clients, UNCHANGED <<approvalVars, paymentVars>>,
             \/ \E i \in Invoices : Submit(c, i) \/ Resubmit(c, i)
             \/ ClientStep(c) \/ RequestFails(c) \/ PublishFails(c) \/ PublishAgainFails(c)
      PROVE  IntakeMoves
  <2>1. [Next]_vars
    BY <1>3 DEF Next
  <2> QED BY <1>1, <1>2, <1>3, <2>1
      DEF Submit, Resubmit, ClientStep, Publish, SaveEvaluating, BumpSubmitted, SaveFailed,
          SaveResubmitted, PublishAgain, RequestFails, PublishFails, PublishAgainFails, Ambiguous, bus
<1>4. ASSUME NEW h \in Handlers, UNCHANGED <<approvalVars, paymentVars>>,
             (\E m \in unacked : Deliver(h, m)) \/ HandlerStep(h) \/ Raise(h)
      PROVE  IntakeMoves
  <2>1. [Next]_vars
    BY <1>4 DEF Next
  <2> QED BY <1>1, <1>4, <2>1 DEF HandlerStep, Deliver, FirstTime, Update, Bump, Ack, Raise, bus
<1>5. CASE IntakeStep
  BY <1>3, <1>4, <1>5 DEF IntakeStep
<1>6. CASE People
  BY <1>3, <1>6 DEF People, ReviewActs
<1>7. ~Fault("again") /\ ~Approval!Fault("lost")
  BY AgainForGood DEF PlainStep, OnceSoFar
<1>8. ~DecisionStep(TRUE)
  BY <1>7 DEF DecisionStep
<1>9. ASSUME NEW a \in Approvers, VerdictFails(a)
      PROVE  ReviewActs /\ UNCHANGED paymentVars
  <2>1. /\ Approval!PublishFails(a) /\ UNCHANGED <<intakeOwn, paymentOwn>>
        /\ \/ UNCHANGED <<bus, apUnacked, paUnacked>>
           \/ apFaults'["lost"] # apFaults["lost"]
    BY <1>9 DEF VerdictFails
  <2>2. apFaults' = [apFaults EXCEPT !["broker"] = @ + 1]
    BY <1>7, <2>1 DEF Approval!PublishFails, Approval!Fault
  <2>3. apFaults'["lost"] = apFaults["lost"]
    BY <2>2 DEF PlainStep, OnceSoFar, CountedFaults, Approval!AllFaultKinds
  <2>4. UNCHANGED vars /\ UNCHANGED paymentVars
    BY <2>1, <2>3 DEF intakeOwn, vars, paymentVars, bus
  <2> QED BY <2>1, <2>4 DEF ReviewActs
<1>10. CASE Faults
  BY <1>3, <1>4, <1>8, <1>9, <1>10 DEF Faults, SagaActs
<1>11. CASE UNCHANGED flowVars
  BY <1>1, <1>11 DEF flowVars, vars, bus
<1>12. CASE ApprovalStep
  BY <1>12 DEF ApprovalStep, ReviewActs
<1>13. CASE PaymentStep
  BY <1>13 DEF PaymentStep, SagaActs
<1> QED BY <1>5, <1>6, <1>10, <1>11, <1>12, <1>13 DEF PlainStep, FlowNext, Progress

\* A decision is new when it is announced.
LEMMA DecisionSays ==
  ASSUME TypeInv, DecisionStep(FALSE)
  PROVE  \E m \in Decisions :
           /\ Announce(m) /\ sent' = sent \cup {m}
           /\ ~Answered({"decision-made"}, m.invoice, m.version)
           /\ \E n \in sent : n.topic = "invoice-submitted" /\ Fellow(m, n)
           /\ UNCHANGED <<intakeOwn, approvalOwn, paymentOwn>>
           /\ Downstream(FALSE)
<1>1. PICK n \in sent, route \in Routes :
        /\ n.topic = "invoice-submitted"
        /\ ~Answered({"decision-made"}, n.invoice, n.version)
        /\ Announce(Msg("decision-made", n.invoice, n.version, route))
        /\ UNCHANGED faults
  BY DEF DecisionStep
<1> DEFINE m == Msg("decision-made", n.invoice, n.version, route)
<1>2. n.invoice \in Invoices /\ n.version \in Versions
  BY DEF TypeInv, TypeOK, Message
<1>3. m \in Decisions /\ m.invoice = n.invoice /\ m.version = n.version
  BY <1>2, MsgTyped, MsgParts DEF Decisions
<1>4. UNCHANGED <<intakeOwn, approvalOwn, paymentOwn>>
  BY <1>1 DEF DecisionStep, intakeOwn
<1>5. Decide(n, FALSE)
  BY <1>1 DEF Announce, Decide, Publishes
<1>6. Downstream(FALSE)
  BY <1>4, <1>5 DEF Downstream, intakeOwn
<1> HIDE DEF m
<1>7. Announce(m) /\ sent' = sent \cup {m}
  BY <1>1 DEF m, Announce, Broadcast
<1> QED BY <1>1, <1>3, <1>4, <1>6, <1>7 DEF Fellow

\* A report names the invoice and the submission of what triggered the payment.
LEMMA ReportSays ==
  ASSUME TypeInv, NEW h \in Handlers, PaymentPublish(h), call[h].event \in GoAhead
  PROVE  LET e == call[h].event IN
         \E m \in Message :
           /\ Announce(m) /\ sent' = sent \cup {m}
           /\ m.invoice = e.invoice /\ m.version = e.version /\ m.topic \in Payments
           /\ m = Msg(m.topic, e.invoice, e.version, None)
           /\ m.topic = "payment-completed" <=> paPc[h] = "publish_completed"
           /\ paPc[h] \in {"publish_failed", "publish_compensated", "publish_completed"}
           /\ UNCHANGED <<intakeOwn, approvalOwn>>
<1> DEFINE e == call[h].event
           t == IF paPc[h] = "publish_completed" THEN "payment-completed" ELSE "payment-failed"
           m == Msg(t, e.invoice, e.version, None)
<1>1. e.invoice \in Invoices /\ e.version \in Versions
  BY DEF TypeInv, TypeOK, Message, GoAhead
<1>2. m \in Message /\ m.topic = t /\ m.invoice = e.invoice /\ m.version = e.version
  BY <1>1, MsgTyped, MsgParts
<1>3. /\ Announce(m) /\ UNCHANGED <<intakeOwn, approvalOwn>>
      /\ paPc[h] \in {"publish_failed", "publish_compensated", "publish_completed"}
  BY DEF PaymentPublish, Payment!Publish
<1>4. m = Msg(m.topic, e.invoice, e.version, None)
  BY <1>2
<1> HIDE DEF m
<1>5. sent' = sent \cup {m}
  BY <1>3 DEF Announce, Broadcast
<1> QED BY <1>2, <1>3, <1>4, <1>5 DEF Payments

\* How a step of the story looks from the approval service.
LEMMA ReviewKinds ==
  ASSUME TypeInv, PlainStep,
         \A h \in Handlers : paPc[h] # "idle" => call[h].event \in GoAhead
  PROVE  ReviewRests \/ ReviewActs \/ \E a \in Approvers : ApprovalPublish(a)
<1>1. ASSUME NEW m \in Message, m.topic # "approval-resolved", Announce(m), UNCHANGED approvalOwn,
             m.topic = "decision-made" =>
                 /\ ~Answered({"decision-made"}, m.invoice, m.version)
                 /\ \E n \in sent : n.topic = "invoice-submitted" /\ Fellow(m, n)
      PROVE  ReviewRests
  <2>1. /\ {m} \in SUBSET Message /\ sent' = sent \cup {m}
        /\ apUnacked' = apUnacked \cup ({m} \cap Decisions)
    BY <1>1 DEF Announce, Broadcast
  <2> QED BY <1>1, <2>1 DEF ReviewRests
<1>2. ASSUME UNCHANGED approvalVars, NEW N \in SUBSET {m \in Message : m.topic = "invoice-submitted"},
             sent' = sent \cup N
      PROVE  ReviewRests
  <2>1. N \cap Decisions = {} /\ N \in SUBSET Message
    BY DEF Decisions
  <2>2. apUnacked' = apUnacked \cup (N \cap Decisions) /\ UNCHANGED approvalOwn
    BY <1>2, <2>1 DEF approvalVars
  <2> QED BY <1>2, <2>1, <2>2 DEF ReviewRests
<1>3. CASE IntakeMoves
  BY <1>2, <1>3 DEF IntakeMoves
<1>4. CASE DecisionStep(FALSE)
  BY <1>1, <1>4, DecisionSays DEF Decisions
<1>5. CASE SagaActs /\ UNCHANGED approvalVars
  <2>1. {} \in SUBSET {m \in Message : m.topic = "invoice-submitted"} /\ sent' = sent \cup {}
    BY <1>5 DEF SagaActs, vars, bus
  <2> QED BY <1>2, <1>5, <2>1
<1>6. ASSUME NEW h \in Handlers, PaymentPublish(h) PROVE ReviewRests
  <2>1. call[h].event \in GoAhead
    BY <1>6 DEF PaymentPublish, Payment!Publish
  <2>2. PICK m \in Message : Announce(m) /\ m.topic \in Payments /\ UNCHANGED approvalOwn
    BY <1>6, <2>1, ReportSays
  <2>3. m.topic # "approval-resolved" /\ m.topic # "decision-made"
    BY <2>2 DEF Payments
  <2> QED BY <1>1, <2>2, <2>3
<1> QED BY <1>3, <1>4, <1>5, <1>6, StoryKinds

\* Only one worker of the approval service moves, to `next`.
Turns(w, next) ==
  /\ apPc'[w] = next
  /\ \A x \in (Handlers \cup Approvers) \ {w} : apPc'[x] = apPc[x]

HandlerTurns(h, next) ==
  /\ Turns(h, next)
  /\ \A g \in Handlers \ {h} : apEvent'[g] = apEvent[g]
  /\ UNCHANGED request

ApproverTurns(a, next) ==
  /\ Turns(a, next)
  /\ \A b \in Approvers \ {a} : request'[b] = request[b]
  /\ UNCHANGED <<apEvent, apUnacked, apProcessed>>

\* One escalation changes.
Becomes(i, r) ==
  /\ escalation'[i] = r
  /\ \A j \in Invoices \ {i} : escalation'[j] = escalation[j]

\* A review is opened under those who are about to take the invoice out of the queue.
Overtakes(i) ==
  /\ overtaken[i] \subseteq overtaken'[i]
  /\ \A j \in Invoices \ {i} : overtaken'[j] = overtaken[j]
  /\ \A a \in Approvers : apPc[a] = "dequeue" /\ request[a].invoice = i => overtaken'[i] # {}

Opens(h) ==
  LET i == apEvent[h].invoice IN
  /\ Becomes(i, [status |-> "pending", review |-> apEvent[h], by |-> None])
  /\ HandlerTurns(h, "add")
  /\ \/ apPc[h] = "save_new" /\ escalation[i] = None /\ UNCHANGED overtaken
     \/ apPc[h] = "reopen" /\ Approval!HasStatus(i, {"needs_info"}) /\ Overtakes(i)
  /\ UNCHANGED <<apEvent, apUnacked, apProcessed, queue>>

\* A handler goes on without opening a review.
Walks(h) ==
  LET e == apEvent[h] IN
  /\ UNCHANGED <<escalation, overtaken>>
  /\ \/ /\ apPc[h] = "idle" /\ HandlerTurns(h, "first_time")
        /\ apEvent'[h] \in apUnacked /\ apEvent'[h].outcome = "human_review"
        /\ \A g \in Handlers : apEvent[g] # apEvent'[h]
        /\ UNCHANGED <<apUnacked, apProcessed, queue>>
     \/ /\ apPc[h] = "first_time"
        /\ HandlerTurns(h, IF e \in apProcessed THEN "ack" ELSE "save_new")
        /\ apProcessed' = apProcessed \cup {e}
        /\ UNCHANGED <<apEvent, apUnacked, queue>>
     \/ /\ \/ apPc[h] = "save_new" /\ escalation[e.invoice] # None /\ HandlerTurns(h, "inspect")
           \/ apPc[h] = "inspect" /\ HandlerTurns(h, Approval!AfterInspect(escalation[e.invoice]))
           \/ /\ apPc[h] = "reopen" /\ ~Approval!HasStatus(e.invoice, {"needs_info"})
              /\ HandlerTurns(h, "ack")
        /\ UNCHANGED <<apEvent, apUnacked, apProcessed, queue>>
     \/ /\ apPc[h] = "add" /\ HandlerTurns(h, "ack") /\ queue' = queue \cup {e.invoice}
        /\ UNCHANGED <<apEvent, apUnacked, apProcessed>>
     \/ /\ apPc[h] = "ack" /\ HandlerTurns(h, "idle") /\ apEvent'[h] = None
        /\ apUnacked' = apUnacked \ {e}
        /\ UNCHANGED <<apProcessed, queue>>

\* An approver settles a review ...
Settles(a) ==
  LET i == request[a].invoice IN
  /\ apPc[a] = "resolve" /\ ApproverTurns(a, "publish")
  /\ Approval!HasStatus(i, {"pending"})
  /\ request'[a] = [request[a] EXCEPT !.review = escalation[i].review]
  /\ Becomes(i, [status |-> request[a].verdict, review |-> escalation[i].review, by |-> a])
  /\ UNCHANGED <<queue, overtaken>>

\* ... or rolls it back ...
Reverts(a) ==
  LET i == request[a].invoice IN
  /\ apPc[a] = "revert" /\ ApproverTurns(a, "requeue")
  /\ Becomes(i, [status |-> "pending", review |-> escalation[i].review, by |-> None])
  /\ Overtakes(i)
  /\ UNCHANGED <<request, queue>>

\* ... or goes on with neither.
Attends(a) ==
  LET i == request[a].invoice IN
  /\ UNCHANGED <<escalation, overtaken>>
  /\ \/ /\ apPc[a] = "idle" /\ ApproverTurns(a, "resolve")
        /\ request'[a] \in Approval!Request /\ UNCHANGED queue
     \/ apPc[a] = "resolve" /\ ApproverTurns(a, "idle") /\ UNCHANGED queue
     \/ /\ apPc[a] = "publish" /\ ApproverTurns(a, "revert") /\ UNCHANGED <<request, queue>>
     \/ apPc[a] = "dequeue" /\ ApproverTurns(a, "idle") /\ queue' = queue \ {i}
     \/ apPc[a] = "requeue" /\ ApproverTurns(a, "idle") /\ queue' = queue \cup {i}

\* Handlers and approvers are different, and the only workers.
LEMMA ReviewWorkers ==
  /\ Approval!Workers = Handlers \cup Approvers
  /\ \A h \in Handlers : h \notin Approvers
  /\ \A a \in Approvers : a \notin Handlers /\ a # None
BY FlowAssumption DEF Approval!Workers

\* The faults that the approval service meets.
LEMMA ReviewFaultKinds ==
  ASSUME NEW kind, kind \notin {"broker", "lost"}
  PROVE  ~Approval!Fault(kind)
BY FlowAssumption DEF Approval!Fault

\* A handler of the approval service that goes on alters no other worker.
LEMMA HandlerTurned ==
  ASSUME ReviewTypeOK, NEW h \in Handlers,
         NEW next \in {"idle"} \cup Approval!HandlerPcs, Approval!Goto(h, next), UNCHANGED request,
         \/ UNCHANGED apEvent
         \/ \E e \in Decisions \cup {None} : apEvent' = [apEvent EXCEPT ![h] = e]
  PROVE  /\ HandlerTurns(h, next)
         /\ apPc' \in [Handlers \cup Approvers ->
                      {"idle"} \cup Approval!HandlerPcs \cup Approval!ApproverPcs]
         /\ apEvent' \in [Handlers -> Decisions \cup {None}]
         /\ request' \in [Approvers -> Approval!Request \cup {None}]
BY DEF ReviewTypeOK, Approval!Goto, HandlerTurns, Turns

\* An approver that goes on alters no other worker and nothing of the broker.
LEMMA ApproverTurned ==
  ASSUME ReviewTypeOK, NEW a \in Approvers,
         NEW next \in {"idle"} \cup Approval!ApproverPcs, Approval!Goto(a, next),
         UNCHANGED <<apEvent, apUnacked, apProcessed>>,
         \/ UNCHANGED request
         \/ \E r \in Approval!Request \cup {None} : request' = [request EXCEPT ![a] = r]
  PROVE  /\ ApproverTurns(a, next)
         /\ apPc' \in [Handlers \cup Approvers ->
                      {"idle"} \cup Approval!HandlerPcs \cup Approval!ApproverPcs]
         /\ apEvent' \in [Handlers -> Decisions \cup {None}]
         /\ request' \in [Approvers -> Approval!Request \cup {None}]
BY DEF ReviewTypeOK, Approval!Goto, ApproverTurns, Turns

\* What a decision says to the approval service.
LEMMA ReviewSays ==
  ASSUME NEW m \in Decisions
  PROVE  /\ Reviews[m].invoice = m.invoice /\ m.invoice \in Invoices
         /\ Reviews[m].review <=> m.outcome = "human_review"
         /\ Reviews[m].resubmission <=> m.version > 1
         /\ m.topic = "decision-made" /\ m \in Message
BY DEF Reviews, Decisions, Message

\* What each action of the subscriber does.
LEMMA SubscriberDoes ==
  ASSUME ReviewType, NEW h \in Handlers,
         (\E e \in apUnacked : Approval!Deliver(h, e)) \/ Approval!Subscriber(h)
  PROVE  (Opens(h) \/ Walks(h)) /\ ReviewTypeOK'
<1> DEFINE e == apEvent[h]
           i == e.invoice
           open == [status |-> "pending", review |-> e, by |-> None]
<1>t. ReviewTypeOK /\ ReviewHandler(h) /\ h \in Approval!Workers
  BY ReviewWorkers DEF ReviewType
<1>e. apPc[h] # "idle" =>
        /\ e \in Decisions /\ Approval!Subject(h) = i /\ i \in Invoices
        /\ open \in Approval!Escalation
  <2>1. apPc[h] # "idle" => e \in Decisions
    BY <1>t DEF ReviewHandler, ReviewTypeOK
  <2> QED BY <2>1, ReviewSays DEF Approval!Subject, Approval!Escalation, Approval!Statuses
<1>p. {"idle", "first_time", "save_new", "inspect", "reopen", "add", "ack"}
        \subseteq {"idle"} \cup Approval!HandlerPcs
  BY DEF Approval!HandlerPcs
<1>1. ASSUME NEW d \in apUnacked, Approval!Deliver(h, d)
      PROVE  (Opens(h) \/ Walks(h)) /\ ReviewTypeOK'
  <2>1. d \in Decisions
    BY <1>t DEF ReviewTypeOK
  <2>2. \A g \in Handlers : apEvent[g] # d
    BY <1>1, ReviewFaultKinds DEF Approval!Deliver
  <2>3. /\ apPc[h] = "idle" /\ Approval!Goto(h, "first_time")
        /\ apEvent' = [apEvent EXCEPT ![h] = d]
        /\ Reviews[d].review
        /\ UNCHANGED <<apUnacked, apProcessed, escalation, queue, overtaken, request>>
    BY <1>1 DEF Approval!Deliver, Approval!broker, Approval!stores, Approval!history
  <2>4. apEvent'[h] = d /\ d.outcome = "human_review"
    BY <1>t, <2>1, <2>3, ReviewSays DEF ReviewTypeOK
  <2>5. /\ HandlerTurns(h, "first_time")
        /\ apPc' \in [Handlers \cup Approvers ->
                      {"idle"} \cup Approval!HandlerPcs \cup Approval!ApproverPcs]
        /\ apEvent' \in [Handlers -> Decisions \cup {None}]
        /\ request' \in [Approvers -> Approval!Request \cup {None}]
    BY <1>t, <1>p, <2>1, <2>3, HandlerTurned
  <2> QED BY <1>t, <2>2, <2>3, <2>4, <2>5 DEF Walks, ReviewTypeOK
<1>2. CASE Approval!FirstTime(h)
  <2>1. /\ apPc[h] = "first_time"
        /\ Approval!Goto(h, IF e \in apProcessed THEN "ack" ELSE "save_new")
        /\ apProcessed' = apProcessed \cup {e}
        /\ UNCHANGED <<apUnacked, escalation, queue, overtaken, apEvent, request>>
    BY <1>2 DEF Approval!FirstTime, Approval!broker, Approval!history, Approval!locals
  <2> QED BY <1>t, <1>p, <2>1, HandlerTurned DEF Walks, ReviewTypeOK
<1>3. CASE Approval!SaveNew(h)
  <2>1. /\ apPc[h] = "save_new"
        /\ UNCHANGED <<apUnacked, apProcessed, queue, overtaken, apEvent, request>>
    BY <1>3 DEF Approval!SaveNew, Approval!broker, Approval!history, Approval!locals
  <2>2. CASE escalation[i] = None
    <3>1. escalation' = [escalation EXCEPT ![i] = open] /\ Approval!Goto(h, "add")
      BY <1>3, <1>e, <2>1, <2>2 DEF Approval!SaveNew
    <3> HIDE DEF open
    <3>2. /\ Becomes(i, open)
          /\ escalation' \in [Invoices -> Approval!Escalation \cup {None}]
      BY <1>t, <1>e, <2>1, <3>1 DEF ReviewTypeOK, Becomes
    <3> QED BY <1>t, <1>p, <2>1, <2>2, <3>1, <3>2, HandlerTurned DEF Opens, ReviewTypeOK, open
  <2>3. CASE escalation[i] # None
    <3>1. UNCHANGED escalation /\ Approval!Goto(h, "inspect")
      BY <1>3, <1>e, <2>1, <2>3 DEF Approval!SaveNew
    <3> QED BY <1>t, <1>p, <2>1, <2>3, <3>1, HandlerTurned DEF Walks, ReviewTypeOK
  <2> QED BY <2>2, <2>3
<1>4. CASE Approval!Inspect(h)
  <2>1. /\ apPc[h] = "inspect"
        /\ UNCHANGED <<apUnacked, apProcessed, escalation, queue, overtaken, apEvent, request>>
    BY <1>4 DEF Approval!Inspect, Approval!broker, Approval!stores, Approval!history,
                Approval!locals
  <2>2. PICK r \in {escalation[Approval!Subject(h)], None} :
          Approval!Finds(Approval!Subject(h), r) /\ Approval!Goto(h, Approval!AfterInspect(r))
    BY <1>4 DEF Approval!Inspect
  <2>3. r = escalation[i]
    BY <1>e, <2>1, <2>2, ReviewFaultKinds DEF Approval!Finds
  <2>4. Approval!AfterInspect(r) \in {"ack", "add", "reopen"}
    BY DEF Approval!AfterInspect
  <2>5. HandlerTurns(h, Approval!AfterInspect(escalation[i])) /\ ReviewTypeOK'
    BY <1>t, <1>p, <2>1, <2>2, <2>3, <2>4, HandlerTurned DEF ReviewTypeOK
  <2> QED BY <2>1, <2>5 DEF Walks
<1>5. CASE Approval!Reopen(h)
  <2>1. /\ apPc[h] = "reopen"
        /\ UNCHANGED <<apUnacked, apProcessed, queue, apEvent, request>>
    BY <1>5 DEF Approval!Reopen, Approval!broker, Approval!locals
  <2>2. CASE Approval!HasStatus(i, {"needs_info"})
    <3>1. /\ escalation' = [escalation EXCEPT ![i] = open] /\ Approval!Goto(h, "add")
          /\ overtaken' = [overtaken EXCEPT ![i] = @ \cup Approval!CallsOn(i)]
      BY <1>5, <1>e, <2>1, <2>2 DEF Approval!Reopen, Approval!Overtake
    <3> HIDE DEF open
    <3>2. /\ Becomes(i, open)
          /\ escalation' \in [Invoices -> Approval!Escalation \cup {None}]
      BY <1>t, <1>e, <2>1, <3>1 DEF ReviewTypeOK, Becomes
    <3>3. Approval!CallsOn(i) \subseteq Approval!SettledPcs
      BY DEF Approval!CallsOn
    <3>4. ASSUME NEW a \in Approvers, apPc[a] = "dequeue", request[a].invoice = i
          PROVE  "dequeue" \in Approval!CallsOn(i)
      <4>1. request[a] # None
        BY <3>4, SentinelAssumption DEF ReviewType, ReviewApprover
      <4> QED BY <3>4, <4>1 DEF Approval!CallsOn, Approval!SettledPcs
    <3>5. overtaken' \in [Invoices -> SUBSET Approval!SettledPcs] /\ Overtakes(i)
      BY <1>t, <1>e, <2>1, <3>1, <3>3, <3>4 DEF ReviewTypeOK, Overtakes
    <3> QED BY <1>t, <1>p, <2>1, <2>2, <3>1, <3>2, <3>5, HandlerTurned
        DEF Opens, ReviewTypeOK, open
  <2>3. CASE ~Approval!HasStatus(i, {"needs_info"})
    <3>1. UNCHANGED <<escalation, overtaken>> /\ Approval!Goto(h, "ack")
      BY <1>5, <1>e, <2>1, <2>3 DEF Approval!Reopen
    <3> QED BY <1>t, <1>p, <2>1, <2>3, <3>1, HandlerTurned DEF Walks, ReviewTypeOK
  <2> QED BY <2>2, <2>3
<1>6. CASE Approval!Add(h)
  <2>1. /\ apPc[h] = "add" /\ Approval!Goto(h, "ack")
        /\ queue' = queue \cup {Approval!Subject(h)}
        /\ UNCHANGED <<apUnacked, apProcessed, escalation, overtaken, apEvent, request>>
    BY <1>6 DEF Approval!Add, Approval!broker, Approval!history, Approval!locals
  <2>2. queue' = queue \cup {i} /\ queue' \subseteq Invoices
    BY <1>t, <1>e, <2>1 DEF ReviewTypeOK
  <2> QED BY <1>t, <1>p, <2>1, <2>2, HandlerTurned DEF Walks, ReviewTypeOK
<1>7. CASE Approval!Ack(h)
  <2>1. /\ apPc[h] = "ack" /\ Approval!Goto(h, "idle")
        /\ apUnacked' = apUnacked \ {e} /\ apEvent' = [apEvent EXCEPT ![h] = None]
        /\ UNCHANGED <<apProcessed, escalation, queue, overtaken, request>>
    BY <1>7 DEF Approval!Ack, Approval!Leave, Approval!stores, Approval!history
  <2>2. apEvent'[h] = None
    BY <1>t, <2>1 DEF ReviewTypeOK
  <2> QED BY <1>t, <1>p, <2>1, <2>2, HandlerTurned DEF Walks, ReviewTypeOK
<1>8. CASE Approval!Forget(h)
  BY <1>t, <1>8 DEF Approval!Forget, ReviewHandler
<1> QED BY <1>1, <1>2, <1>3, <1>4, <1>5, <1>6, <1>7, <1>8 DEF Approval!Subscriber

\* What the request of an approver on its way holds.
LEMMA RequestTyped ==
  ASSUME ReviewType, NEW a \in Approvers, apPc[a] # "idle"
  PROVE  /\ request[a] \in Approval!Request
         /\ request[a].invoice \in Invoices /\ request[a].verdict \in Verdicts
         /\ Approval!Invoice(a) = request[a].invoice
BY DEF ReviewType, ReviewApprover, Approval!Request, Approval!Invoice

\* What each action of the endpoint does, but for the publish.
LEMMA EndpointDoes ==
  ASSUME ReviewType, NEW a \in Approvers,
         apPc[a] = "revert" => escalation[request[a].invoice] # None,
         \/ Approval!Resolve(a) \/ Approval!Dequeue(a) \/ Approval!Revert(a)
         \/ Approval!Requeue(a) \/ Approval!PublishFails(a)
         \/ \E i \in queue, verdict \in Verdicts : Approval!Post(a, i, verdict)
  PROVE  (Settles(a) \/ Reverts(a) \/ Attends(a)) /\ ReviewTypeOK'
<1> DEFINE i == request[a].invoice
<1>t. ReviewTypeOK /\ ReviewApprover(a) /\ a \in Approval!Workers
  BY ReviewWorkers DEF ReviewType
<1>p. {"idle", "resolve", "publish", "revert", "requeue", "dequeue"}
        \subseteq {"idle"} \cup Approval!ApproverPcs
  BY DEF Approval!ApproverPcs
<1>i. apPc[a] # "idle" => /\ request[a] \in Approval!Request /\ i \in Invoices
                          /\ Approval!Invoice(a) = i /\ request[a].verdict \in Verdicts
  BY RequestTyped
<1>s. ASSUME NEW next \in {"idle"} \cup Approval!ApproverPcs, Approval!Goto(a, next),
             \/ UNCHANGED request
             \/ \E r \in Approval!Request \cup {None} : request' = [request EXCEPT ![a] = r],
             UNCHANGED <<apEvent, apUnacked, apProcessed>>,
             escalation' \in [Invoices -> Approval!Escalation \cup {None}],
             queue' \subseteq Invoices,
             overtaken' \in [Invoices -> SUBSET Approval!SettledPcs]
      PROVE  ApproverTurns(a, next) /\ ReviewTypeOK'
  BY <1>s, <1>t, ApproverTurned DEF ReviewTypeOK
<1>1. ASSUME NEW j \in queue, NEW verdict \in Verdicts, Approval!Post(a, j, verdict)
      PROVE  Attends(a) /\ ReviewTypeOK'
  <2> DEFINE r == [invoice |-> j, verdict |-> verdict, review |-> None]
  <2>1. r \in Approval!Request
    BY <1>t DEF ReviewTypeOK, Approval!Request
  <2>2. /\ apPc[a] = "idle" /\ Approval!Goto(a, "resolve")
        /\ request' = [request EXCEPT ![a] = r]
        /\ UNCHANGED <<apUnacked, apProcessed, escalation, queue, overtaken, apEvent>>
    BY <1>1 DEF Approval!Post, Approval!broker, Approval!stores, Approval!history
  <2> HIDE DEF r
  <2>3. request'[a] = r
    BY <1>t, <2>2 DEF ReviewTypeOK
  <2>4. ApproverTurns(a, "resolve") /\ ReviewTypeOK'
    BY <1>s, <1>t, <1>p, <2>1, <2>2 DEF ReviewTypeOK
  <2> QED BY <2>1, <2>2, <2>3, <2>4 DEF Attends
<1>2. CASE Approval!Resolve(a)
  <2>1. /\ apPc[a] = "resolve"
        /\ UNCHANGED <<apUnacked, apProcessed, queue, overtaken, apEvent>>
    BY <1>2 DEF Approval!Resolve, Approval!broker, Approval!stores, Approval!history,
                Approval!Answer, Approval!Settle
  <2>2. CASE ~Approval!OpenForVerdict(i)
    <3>1. /\ Approval!Goto(a, "idle") /\ request' = [request EXCEPT ![a] = None]
          /\ UNCHANGED escalation
      BY <1>2, <1>i, <2>1, <2>2 DEF Approval!Resolve, Approval!Answer, Approval!stores
    <3>2. ApproverTurns(a, "idle") /\ ReviewTypeOK'
      BY <1>s, <1>t, <1>p, <2>1, <3>1 DEF ReviewTypeOK
    <3> QED BY <2>1, <3>1, <3>2 DEF Attends
  <2>3. CASE Approval!OpenForVerdict(i)
    <3> DEFINE r == [request[a] EXCEPT !.review = escalation[i].review]
               e == [status |-> request[a].verdict, review |-> escalation[i].review, by |-> a]
    <3>1. /\ Approval!Goto(a, "publish")
          /\ escalation' = [escalation EXCEPT ![i] =
                              [@ EXCEPT !.status = request[a].verdict, !.by = a]]
          /\ request' = [request EXCEPT ![a] = r]
      BY <1>2, <1>i, <2>1, <2>3 DEF Approval!Resolve, Approval!Settle, Approval!Noted
    <3>2. Approval!HasStatus(i, {"pending"}) /\ escalation[i] \in Approval!Escalation
      BY <1>t, <1>i, <2>1, <2>3 DEF Approval!OpenForVerdict, Approval!HasStatus, ReviewTypeOK
    <3>3. request[a].verdict \in Approval!Statuses /\ escalation[i].review \in Decisions
      BY <1>i, <2>1, <3>2 DEF Approval!Escalation, Approval!Statuses, Approval!Final, Verdicts
    <3>4. e \in Approval!Escalation /\ r \in Approval!Request
      BY <1>i, <2>1, <3>3 DEF Approval!Escalation, Approval!Request
    <3>6. escalation'[i] = e
      BY <1>t, <1>i, <2>1, <3>1, <3>2 DEF ReviewTypeOK, Approval!Escalation
    <3>7. request'[a] = r
      BY <1>t, <1>i, <2>1, <3>1 DEF ReviewTypeOK
    <3>8. \A j \in Invoices \ {i} : escalation'[j] = escalation[j]
      BY <1>t, <3>1 DEF ReviewTypeOK
    <3>9. escalation' \in [Invoices -> Approval!Escalation \cup {None}]
      BY <1>t, <1>i, <2>1, <3>1, <3>4, <3>6 DEF ReviewTypeOK
    <3> HIDE DEF r, e
    <3>5. ApproverTurns(a, "publish") /\ ReviewTypeOK'
      BY <1>s, <1>t, <1>p, <2>1, <3>1, <3>4, <3>9 DEF ReviewTypeOK
    <3> QED BY <2>1, <3>2, <3>5, <3>6, <3>7, <3>8 DEF Settles, Becomes, r, e
  <2> QED BY <2>2, <2>3
<1>3. CASE Approval!Dequeue(a)
  <2>1. /\ apPc[a] = "dequeue" /\ Approval!Goto(a, "idle") /\ queue' = queue \ {i}
        /\ request' = [request EXCEPT ![a] = None]
        /\ UNCHANGED <<apUnacked, apProcessed, escalation, overtaken, apEvent>>
    BY <1>3, <1>i DEF Approval!Dequeue, Approval!broker, Approval!Answer
  <2>2. ApproverTurns(a, "idle") /\ ReviewTypeOK'
    BY <1>s, <1>t, <1>p, <2>1 DEF ReviewTypeOK
  <2> QED BY <2>1, <2>2 DEF Attends
<1>4. CASE Approval!Requeue(a)
  <2>1. /\ apPc[a] = "requeue" /\ Approval!Goto(a, "idle") /\ queue' = queue \cup {i}
        /\ request' = [request EXCEPT ![a] = None]
        /\ UNCHANGED <<apUnacked, apProcessed, escalation, overtaken, apEvent>>
    BY <1>4, <1>i DEF Approval!Requeue, Approval!broker, Approval!Answer
  <2>2. ApproverTurns(a, "idle") /\ ReviewTypeOK'
    BY <1>s, <1>t, <1>p, <1>i, <2>1 DEF ReviewTypeOK
  <2> QED BY <2>1, <2>2 DEF Attends
<1>5. CASE Approval!PublishFails(a)
  <2>1. /\ apPc[a] = "publish" /\ Approval!Goto(a, "revert")
        /\ UNCHANGED <<apUnacked, apProcessed, escalation, queue, overtaken, apEvent, request>>
    BY <1>5 DEF Approval!PublishFails, Approval!broker, Approval!stores, Approval!history,
                Approval!locals
  <2>2. ApproverTurns(a, "revert") /\ ReviewTypeOK'
    BY <1>s, <1>t, <1>p, <2>1 DEF ReviewTypeOK
  <2> QED BY <2>1, <2>2 DEF Attends
<1>6. CASE Approval!Revert(a)
  <2> DEFINE e == [status |-> "pending", review |-> escalation[i].review, by |-> None]
  <2>1. /\ apPc[a] = "revert" /\ Approval!Goto(a, "requeue")
        /\ escalation' = [escalation EXCEPT ![i] = [@ EXCEPT !.status = "pending", !.by = None]]
        /\ overtaken' = [overtaken EXCEPT ![i] = @ \cup (Approval!CallsOn(i) \ {"revert"})]
        /\ UNCHANGED <<apUnacked, apProcessed, queue, apEvent, request>>
    BY <1>6, <1>i DEF Approval!Revert, Approval!broker, Approval!Overtake, Approval!locals
  <2>2. escalation[i] \in Approval!Escalation
    BY <1>t, <1>i, <2>1 DEF ReviewTypeOK
  <2>3. e \in Approval!Escalation
    BY <2>2 DEF Approval!Escalation, Approval!Statuses
  <2>4. escalation'[i] = e
    BY <1>t, <1>i, <2>1, <2>2 DEF ReviewTypeOK, Approval!Escalation
  <2> HIDE DEF e
  <2>5. /\ Becomes(i, e)
        /\ escalation' \in [Invoices -> Approval!Escalation \cup {None}]
    BY <1>t, <1>i, <2>1, <2>3, <2>4 DEF ReviewTypeOK, Becomes
  <2>6. ASSUME NEW b \in Approvers, apPc[b] = "dequeue", request[b].invoice = i
        PROVE  "dequeue" \in Approval!CallsOn(i) \ {"revert"}
    <3>1. request[b] # None
      BY <2>6, SentinelAssumption DEF ReviewType, ReviewApprover
    <3> QED BY <2>6, <3>1 DEF Approval!CallsOn, Approval!SettledPcs
  <2>7. overtaken' \in [Invoices -> SUBSET Approval!SettledPcs] /\ Overtakes(i)
    <3>1. Approval!CallsOn(i) \subseteq Approval!SettledPcs
      BY DEF Approval!CallsOn
    <3> QED BY <1>t, <1>i, <2>1, <2>6, <3>1 DEF ReviewTypeOK, Overtakes
  <2>8. ApproverTurns(a, "requeue") /\ ReviewTypeOK'
    BY <1>s, <1>t, <1>p, <2>1, <2>5, <2>7 DEF ReviewTypeOK
  <2> QED BY <2>1, <2>5, <2>7, <2>8 DEF Reverts, e
<1> QED BY <1>1, <1>2, <1>3, <1>4, <1>5, <1>6

--------------------------------------------------------------------------------
(* What intake and the approval service know of each other.                  *)

\* A decision that asks for a human and whose review no handler has opened yet.
Unopened(e) ==
  /\ e \in apUnacked /\ e \in Asked
  /\ \A h \in Handlers : apPc[h] \in {"add", "ack"} => apEvent[h] # e

\* An approver has settled the review of i and not published the verdict yet.
Settling(a, i) == apPc[a] \in {"publish", "revert"} /\ request[a].invoice = i

Reviewed(i) == escalation[i].review

\* An event is handled once, by one handler.
HandledOnce ==
  /\ \A g, h \in Handlers : apPc[g] # "idle" /\ apPc[h] # "idle" /\ apEvent[g] = apEvent[h] => g = h
  /\ \A h \in Handlers : apPc[h] = "first_time" => apEvent[h] \notin apProcessed
  /\ \A e \in apUnacked : e \in apProcessed => \E h \in Handlers : apPc[h] # "idle" /\ apEvent[h] = e

\* A review that is not open yet finds the one before it sent back.
UnopenedInv ==
  /\ \A e \in Decisions : Unopened(e) =>
       /\ ~Answered({"approval-resolved"}, e.invoice, e.version)
       /\ escalation[e.invoice] # None =>
            /\ Approval!HasStatus(e.invoice, {"needs_info"})
            /\ Reviewed(e.invoice).version < e.version
  /\ \A h \in Handlers : apPc[h] \in {"inspect", "reopen"} => escalation[apEvent[h].invoice] # None

\* A verdict that was published is the status of the escalation until the next review
\* is opened, and nobody is about to publish another or to roll it back.
Told(r) ==
  /\ escalation[r.invoice] # None
  /\ \/ r.version < Reviewed(r.invoice).version
     \/ /\ r.version = Reviewed(r.invoice).version
        /\ r.outcome = escalation[r.invoice].status
        /\ \A a \in Approvers : ~Settling(a, r.invoice)

\* Who settled a review finds it as it was settled.
Found(a) ==
  apPc[a] \in {"publish", "revert"} =>
    escalation[request[a].invoice] =
      [status |-> request[a].verdict, review |-> request[a].review, by |-> a]

\* A review that is settled was published, or is about to be.
Telling(i) ==
  escalation[i] # None /\ escalation[i].status # "pending" =>
    \/ Msg("approval-resolved", i, Reviewed(i).version, escalation[i].status) \in sent
    \/ \E a \in Approvers : Settling(a, i)

TellingInv ==
  /\ \A r \in sent : r.topic = "approval-resolved" => Told(r)
  /\ \A a \in Approvers : Found(a)
  /\ \A i \in Invoices : Telling(i)

\* An escalation is the review of a decision, the latest that was opened.
OpenedInv ==
  /\ \A i \in Invoices : escalation[i] # None => Reviewed(i) \in Asked /\ Reviewed(i).invoice = i
  /\ \A e \in Asked : ~Unopened(e) =>
       escalation[e.invoice] # None /\ e.version <= Reviewed(e.invoice).version

\* A pending review is in the queue or about to get there, and nobody takes it out who
\* settled another, unless it was opened under a call.
Queued(i) ==
  escalation[i] # None /\ overtaken[i] = {} =>
    /\ escalation[i].status = "pending" =>
         \/ i \in queue
         \/ \E h \in Handlers : apPc[h] = "add" /\ apEvent[h].invoice = i
         \/ \E a \in Approvers : apPc[a] = "requeue" /\ request[a].invoice = i
    /\ \A a \in Approvers : apPc[a] = "dequeue" /\ request[a].invoice = i =>
         escalation[i].status # "pending"

QueueInv ==
  /\ \A a \in Approvers : apPc[a] = "dequeue" => escalation[request[a].invoice] # None
  /\ \A i \in Invoices : Queued(i)

ReviewInv == ReviewType /\ HandledOnce /\ UnopenedInv /\ TellingInv /\ OpenedInv /\ QueueInv

\* An approver who settled a review finds an escalation.
LEMMA FoundTyped ==
  ASSUME ReviewInv, NEW a \in Approvers, apPc[a] \in {"publish", "revert"}
  PROVE  LET i == request[a].invoice IN
         /\ i \in Invoices /\ escalation[i] # None /\ escalation[i] \in Approval!Escalation
         /\ escalation[i].status = request[a].verdict /\ Reviewed(i) = request[a].review
         /\ escalation[i].by = a
         /\ request[a].verdict \in Verdicts /\ request[a].review \in Asked
         /\ request[a].review.invoice = i
<1> DEFINE i == request[a].invoice
           e == [status |-> request[a].verdict, review |-> request[a].review, by |-> a]
<1>1. i \in Invoices /\ request[a].verdict \in Verdicts /\ request[a].review \in Decisions
  BY RequestTyped DEF ReviewInv, ReviewType, ReviewApprover
<1>2. e \in Approval!Escalation
  BY <1>1 DEF Approval!Escalation, Approval!Statuses, Approval!Final, Verdicts
<1>3. escalation[i] = e
  BY DEF ReviewInv, TellingInv, Found
<1>4. /\ e # None /\ e.status = request[a].verdict /\ e.review = request[a].review /\ e.by = a
  BY <1>2, SentinelAssumption
<1> HIDE DEF e
<1>5. Reviewed(i) \in Asked /\ Reviewed(i).invoice = i
  BY <1>1, <1>3, <1>4 DEF ReviewInv, OpenedInv
<1> QED BY <1>1, <1>2, <1>3, <1>4, <1>5 DEF Reviewed

\* Decisions and their versions.
LEMMA AskedTyped ==
  ASSUME TypeInv, NEW e \in Asked
  PROVE  /\ e \in sent /\ e \in Decisions /\ e \in Message /\ e.invoice \in Invoices
         /\ e.version \in Nat /\ e.version \in Versions
         /\ e.topic = "decision-made" /\ e.outcome = "human_review"
BY DEF TypeInv, TypeOK, Asked, Decisions, Message, Versions

\* A review of an earlier submission than the one that is stored was sent back.
LEMMA EarlierSentBack ==
  ASSUME IntakeInv, ReviewInv, NEW i \in Invoices, escalation[i] # None,
         Reviewed(i).version # record[i].version
  PROVE  Approval!HasStatus(i, {"needs_info"}) /\ \A a \in Approvers : ~Settling(a, i)
<1> DEFINE e == Reviewed(i)
<1>1. e \in Asked /\ e.invoice = i
  BY DEF ReviewInv, OpenedInv
<1>2. /\ e \in sent /\ e.version \in Nat
  BY <1>1, AskedTyped DEF IntakeInv
<1>3. record[i] # None /\ e.version <= record[i].version /\ record[i].version \in Nat
  BY <1>1, <1>2 DEF IntakeInv, TaleInv, RecordInv, SentKnown, TypeInv, TypeOK, InvoiceRecord, Versions
<1>4. Closed(i, e.version)
  BY <1>1, <1>2, <1>3 DEF IntakeInv, TaleInv, RecordInv, SentKnown
<1>5. PICK r \in sent : r = Msg("approval-resolved", i, e.version, "needs_info")
  BY <1>4 DEF Closed, Happened
<1>6. r.topic = "approval-resolved" /\ r.invoice = i /\ r.version = e.version
      /\ r.outcome = "needs_info"
  BY <1>5, MsgParts
<1>7. Told(r)
  BY <1>6 DEF ReviewInv, TellingInv
<1> QED BY <1>2, <1>6, <1>7 DEF Told, Approval!HasStatus

\* A review that is not open yet is of the submission that is stored, and what came
\* before it is over.
LEMMA UnopenedIsCurrent ==
  ASSUME IntakeInv, ReviewInv, NEW e, Unopened(e)
  PROVE  /\ e.version = record[e.invoice].version
         /\ \A a \in Approvers : ~Settling(a, e.invoice)
         /\ \A f : Unopened(f) /\ f.invoice = e.invoice => f = e
<1>1. ASSUME NEW f, Unopened(f)
      PROVE  f \in Asked /\ f.version = record[f.invoice].version
  <2>1. f \in Asked /\ f \in sent /\ f \in Decisions /\ f.version \in Nat
    BY <1>1, AskedTyped DEF Unopened, IntakeInv
  <2>2. record[f.invoice] # None /\ f.version <= record[f.invoice].version
        /\ record[f.invoice].version \in Nat
    BY <2>1 DEF IntakeInv, TaleInv, RecordInv, SentKnown, TypeInv, TypeOK, InvoiceRecord, Versions,
                Message
  <2>3. ASSUME Closed(f.invoice, f.version) PROVE FALSE
    <3>1. PICK r \in sent : r = Msg("approval-resolved", f.invoice, f.version, "needs_info")
      BY <2>3 DEF Closed, Happened
    <3>2. Answered({"approval-resolved"}, f.invoice, f.version)
      BY <3>1, MsgParts DEF Answered
    <3> QED BY <1>1, <2>1, <3>2 DEF ReviewInv, UnopenedInv
  <2>4. f.version < record[f.invoice].version => Closed(f.invoice, f.version)
    BY <2>1 DEF IntakeInv, TaleInv, RecordInv, SentKnown
  <2> QED BY <2>1, <2>2, <2>3, <2>4
<1>2. /\ e \in Asked /\ e \in Decisions /\ e.invoice \in Invoices /\ e.version \in Nat
  BY <1>1, AskedTyped DEF IntakeInv
<1>3. ASSUME NEW a \in Approvers, Settling(a, e.invoice) PROVE FALSE
  <2>1. escalation[e.invoice] # None
    BY <1>3, FoundTyped DEF Settling
  <2>2. Reviewed(e.invoice).version < e.version
    BY <1>2, <2>1 DEF ReviewInv, UnopenedInv
  <2>3. Reviewed(e.invoice).version \in Nat
    BY <1>2, <2>1, AskedTyped DEF ReviewInv, OpenedInv, IntakeInv
  <2>4. Reviewed(e.invoice).version # record[e.invoice].version
    BY <1>1, <1>2, <2>2, <2>3
  <2> QED BY <1>2, <1>3, <2>1, <2>4, EarlierSentBack
<1>4. ASSUME NEW f, Unopened(f), f.invoice = e.invoice PROVE f = e
  <2>1. f \in Asked /\ f.version = e.version
    BY <1>1, <1>4
  <2>2. f \in sent /\ e \in sent /\ f.topic = "decision-made" /\ e.topic = "decision-made"
    BY <1>2, <2>1 DEF Asked
  <2> QED BY <1>4, <2>1, <2>2 DEF IntakeInv, TaleInv, BusInv, Fellow, Answers
<1> QED BY <1>1, <1>3, <1>4

\* What is published elsewhere leaves the reviews as they are, and a new decision that
\* asks for a human finds the review before it sent back.
LEMMA RestKeeps ==
  ASSUME IntakeInv, ReviewInv, ReviewRests
  PROVE  ReviewInv'
<1>u. UNCHANGED <<apProcessed, escalation, queue, overtaken, apPc, apEvent, request>>
  BY DEF ReviewRests, approvalOwn
<1>1. PICK N \in SUBSET Message :
        /\ sent' = sent \cup N
        /\ apUnacked' = apUnacked \cup (N \cap Decisions)
        /\ \A m \in N :
             /\ m.topic # "approval-resolved"
             /\ m.topic = "decision-made" =>
                  /\ ~Answered({"decision-made"}, m.invoice, m.version)
                  /\ \E n \in sent : n.topic = "invoice-submitted" /\ Fellow(m, n)
  BY DEF ReviewRests
<1>2. ASSUME NEW e \in N, e.topic = "decision-made"
      PROVE  e \notin sent /\ e \in Decisions
  BY <1>1, <1>2 DEF Answered, Decisions
<1>3. Asked \subseteq Asked' /\ Asked \subseteq sent
  BY <1>1 DEF Asked
<1>4. \A h \in Handlers : apPc[h] # "idle" => apEvent[h] \in apUnacked /\ apEvent[h] \in Asked
  BY DEF ReviewInv, ReviewType, ReviewHandler
<1>5. ReviewType'
  <2>1. \A h \in Handlers : ReviewHandler(h)'
    BY <1>u, <1>1, <1>3 DEF ReviewInv, ReviewType, ReviewHandler
  <2>2. \A a \in Approvers : ReviewApprover(a)'
    BY <1>u DEF ReviewInv, ReviewType, ReviewApprover
  <2>3. ReviewTypeOK'
    BY <1>u, <1>1 DEF ReviewInv, ReviewType, ReviewTypeOK
  <2> QED BY <1>u, <1>1, <2>1, <2>2, <2>3 DEF ReviewInv, ReviewType, Decisions
<1>6. HandledOnce'
  <2>1. ASSUME NEW e \in apUnacked', e \in apProcessed'
        PROVE  \E h \in Handlers : apPc'[h] # "idle" /\ apEvent'[h] = e
    <3>1. e \in sent
      BY <1>u, <2>1 DEF ReviewInv, ReviewType
    <3>2. e \in apUnacked
      BY <1>1, <1>2, <2>1, <3>1 DEF Decisions
    <3> QED BY <1>u, <2>1, <3>2 DEF ReviewInv, HandledOnce
  <2> QED BY <1>u, <2>1 DEF ReviewInv, HandledOnce
<1>7. ASSUME NEW e \in sent PROVE Unopened(e)' <=> Unopened(e)
  BY <1>u, <1>1, <1>2 DEF Unopened, Asked, Decisions
<1>8. \A i, v : Answered({"approval-resolved"}, i, v)' => Answered({"approval-resolved"}, i, v)
  BY <1>1 DEF Answered
<1>9. ASSUME NEW e \in Decisions, e \notin sent, Unopened(e)'
      PROVE  /\ ~Answered({"approval-resolved"}, e.invoice, e.version)
             /\ escalation[e.invoice] # None =>
                  /\ Approval!HasStatus(e.invoice, {"needs_info"})
                  /\ Reviewed(e.invoice).version < e.version
  <2>1. e \in N /\ e.topic = "decision-made" /\ e.invoice \in Invoices
    BY <1>1, <1>9 DEF Unopened, Asked, Decisions, Message
  <2>2. PICK n \in sent : n.topic = "invoice-submitted" /\ Fellow(e, n)
    BY <1>1, <2>1
  <2>3. ~Answered({"decision-made"}, e.invoice, e.version)
    BY <1>1, <2>1
  <2>4. ~Answered({"approval-resolved"}, e.invoice, e.version)
    <3> SUFFICES ASSUME NEW r \in sent, r.topic = "approval-resolved",
                        r.invoice = e.invoice, r.version = e.version
                 PROVE  FALSE
      BY DEF Answered
    <3>1. PICK d \in sent : d.topic = "decision-made" /\ Fellow(r, d)
      BY DEF IntakeInv, CauseInv
    <3> QED BY <2>3, <3>1 DEF Answered, Fellow
  <2>5. ASSUME escalation[e.invoice] # None
        PROVE  /\ Approval!HasStatus(e.invoice, {"needs_info"})
               /\ Reviewed(e.invoice).version < e.version
    <3> DEFINE d == Reviewed(e.invoice)
    <3>1. d \in Asked /\ d.invoice = e.invoice
      BY <2>1, <2>5 DEF ReviewInv, OpenedInv
    <3>2. d \in sent /\ d.topic = "decision-made" /\ d.version \in Nat
      BY <3>1, AskedTyped DEF IntakeInv
    <3>3. d.version # e.version
      BY <2>3, <3>1, <3>2 DEF Answered
    <3>4. ~Closed(e.invoice, e.version)
      <4> SUFFICES ASSUME Closed(e.invoice, e.version) PROVE FALSE
        OBVIOUS
      <4>1. PICK c \in sent : c = Msg("decision-made", e.invoice, e.version, "human_review")
        BY DEF Closed, Escalated, Happened
      <4> QED BY <2>3, <4>1, MsgParts DEF Answered
    <3>5. /\ n.version <= record[n.invoice].version /\ d.version <= record[d.invoice].version
          /\ n.version < record[n.invoice].version => Closed(n.invoice, n.version)
          /\ n.version \in Nat /\ record[n.invoice].version \in Nat
      BY <3>2 DEF IntakeInv, TaleInv, RecordInv, SentKnown, TypeInv, TypeOK, InvoiceRecord,
                  Versions, Message
    <3>6. e.version = record[e.invoice].version /\ d.version < e.version
      BY <2>2, <3>1, <3>2, <3>3, <3>4, <3>5 DEF Fellow
    <3> QED BY <2>1, <2>5, <3>3, <3>6, EarlierSentBack
  <2> QED BY <2>4, <2>5
<1>10. UnopenedInv'
  <2>1. ASSUME NEW e \in Decisions, Unopened(e)'
        PROVE  /\ ~Answered({"approval-resolved"}, e.invoice, e.version)
               /\ escalation[e.invoice] # None =>
                    /\ Approval!HasStatus(e.invoice, {"needs_info"})
                    /\ Reviewed(e.invoice).version < e.version
    BY <1>7, <1>9, <2>1 DEF ReviewInv, UnopenedInv
  <2> QED BY <1>u, <1>8, <2>1
      DEF ReviewInv, UnopenedInv, Reviewed, Approval!HasStatus
<1>11. TellingInv'
  <2>1. \A r : Told(r)' <=> Told(r)
    BY <1>u DEF Told, Settling, Reviewed
  <2>2. \A i : Telling(i) => Telling(i)'
    BY <1>u, <1>1 DEF Telling, Settling, Reviewed
  <2>3. \A a : Found(a) => Found(a)'
    BY <1>u DEF Found
  <2> QED BY <1>1, <2>1, <2>2, <2>3 DEF ReviewInv, TellingInv
<1>12. OpenedInv'
  <2>1. ASSUME NEW e \in Asked', e \notin sent PROVE Unopened(e)'
    <3>1. e \in N /\ e.topic = "decision-made" /\ e \in Decisions
      BY <1>1, <1>2, <2>1 DEF Asked
    <3>2. \A h \in Handlers : apPc[h] \in {"add", "ack"} => apEvent[h] # e
      BY <1>3, <1>4, <2>1
    <3> QED BY <1>u, <1>1, <2>1, <3>1, <3>2 DEF Unopened
  <2>2. ASSUME NEW e \in Asked', ~Unopened(e)' PROVE e \in Asked /\ ~Unopened(e)
    BY <1>7, <2>1, <2>2 DEF Asked
  <2> QED BY <1>u, <1>3, <2>2 DEF ReviewInv, OpenedInv, Reviewed
<1>13. QueueInv'
  BY <1>u DEF ReviewInv, QueueInv, Queued
<1> QED BY <1>5, <1>6, <1>10, <1>11, <1>12, <1>13 DEF ReviewInv

\* A decision that asks for nobody is acknowledged.
LEMMA FilterKeeps ==
  ASSUME ReviewInv, UNCHANGED vars, NEW e \in apUnacked, Approval!Filter(e)
  PROVE  ReviewInv'
<1>u. /\ UNCHANGED <<apProcessed, escalation, queue, overtaken, apPc, apEvent, request, sent>>
      /\ apUnacked' = apUnacked \ {e} /\ ~Reviews[e].review
  BY DEF Approval!Filter, Approval!stores, Approval!history, Approval!locals, vars, bus
<1>1. e \in Decisions /\ e \notin Asked
  BY <1>u, ReviewSays DEF ReviewInv, ReviewType, ReviewTypeOK, Asked
<1>2. Asked' = Asked
  BY <1>u DEF Asked
<1>3. \A f : Unopened(f)' <=> Unopened(f)
  BY <1>u, <1>1, <1>2 DEF Unopened
<1>4. ReviewType'
  <2>1. \A h \in Handlers : ReviewHandler(h)'
    BY <1>u, <1>1, <1>2 DEF ReviewInv, ReviewType, ReviewHandler
  <2>2. \A a \in Approvers : ReviewApprover(a)'
    BY <1>u DEF ReviewInv, ReviewType, ReviewApprover
  <2>3. ReviewTypeOK'
    BY <1>u DEF ReviewInv, ReviewType, ReviewTypeOK
  <2> QED BY <1>u, <2>1, <2>2, <2>3 DEF ReviewInv, ReviewType
<1>5. HandledOnce'
  BY <1>u DEF ReviewInv, HandledOnce
<1>6. UnopenedInv'
  BY <1>u, <1>3 DEF ReviewInv, UnopenedInv, Answered, Reviewed, Approval!HasStatus
<1>7. TellingInv'
  BY <1>u DEF ReviewInv, TellingInv, Told, Found, Telling, Settling, Reviewed
<1>8. OpenedInv'
  BY <1>u, <1>2, <1>3 DEF ReviewInv, OpenedInv, Reviewed
<1>9. QueueInv'
  BY <1>u DEF ReviewInv, QueueInv, Queued
<1> QED BY <1>4, <1>5, <1>6, <1>7, <1>8, <1>9 DEF ReviewInv

\* What a handler finds: its event was not handled before, and the escalation it looks at
\* was sent back.
LEMMA HandlerFinds ==
  ASSUME TypeInv, ReviewInv, NEW h \in Handlers
  PROVE  /\ apPc[h] \in {"first_time", "save_new", "inspect", "reopen"} => Unopened(apEvent[h])
         /\ apPc[h] \in {"inspect", "reopen"} =>
              /\ Approval!HasStatus(apEvent[h].invoice, {"needs_info"})
              /\ Approval!AfterInspect(escalation[apEvent[h].invoice]) = "reopen"
         /\ apPc[h] # "idle" => /\ apEvent[h] \in Asked /\ apEvent[h] \in apUnacked
                                /\ apEvent[h].invoice \in Invoices
<1>1. apPc[h] # "idle" => apEvent[h] \in Asked /\ apEvent[h] \in apUnacked
  BY DEF ReviewInv, ReviewType, ReviewHandler
<1>2. apPc[h] # "idle" => apEvent[h].invoice \in Invoices /\ apEvent[h] \in Decisions
  BY <1>1, AskedTyped
<1>3. apPc[h] \in {"first_time", "save_new", "inspect", "reopen"} => Unopened(apEvent[h])
  <2> SUFFICES ASSUME apPc[h] \in {"first_time", "save_new", "inspect", "reopen"},
                      NEW g \in Handlers, apPc[g] \in {"add", "ack"}, apEvent[g] = apEvent[h]
               PROVE  FALSE
    BY <1>1 DEF Unopened
  <2>1. g = h
    BY DEF ReviewInv, HandledOnce
  <2> QED BY <2>1
<1>4. ASSUME apPc[h] \in {"inspect", "reopen"}
      PROVE  Approval!HasStatus(apEvent[h].invoice, {"needs_info"})
  BY <1>2, <1>3, <1>4 DEF ReviewInv, UnopenedInv
<1> QED BY <1>1, <1>2, <1>3, <1>4 DEF Approval!AfterInspect, Approval!HasStatus

\* A handler that goes on without opening a review leaves them as they are.
LEMMA WalkKeeps ==
  ASSUME IntakeInv, ReviewInv, UNCHANGED vars, ReviewTypeOK', NEW h \in Handlers, Walks(h)
  PROVE  ReviewInv'
<1> DEFINE e == apEvent[h]
<1>u. UNCHANGED <<sent, escalation, overtaken>> /\ UNCHANGED request
  BY DEF Walks, HandlerTurns, vars, bus
<1>t. /\ \A x \in (Handlers \cup Approvers) \ {h} : apPc'[x] = apPc[x]
      /\ \A g \in Handlers \ {h} : apEvent'[g] = apEvent[g]
      /\ \A a \in Approvers : a # h /\ apPc'[a] = apPc[a]
  BY ReviewWorkers DEF Walks, HandlerTurns, Turns
<1>i. TypeInv
  BY DEF IntakeInv
<1>1. Asked' = Asked
  BY <1>u DEF Asked
<1>2. \/ /\ apPc[h] = "idle" /\ apPc'[h] = "first_time"
         /\ apEvent'[h] \in apUnacked /\ apEvent'[h].outcome = "human_review"
         /\ \A g \in Handlers : apEvent[g] # apEvent'[h]
         /\ UNCHANGED <<apUnacked, apProcessed, queue>>
      \/ /\ apPc[h] = "first_time" /\ apPc'[h] = "save_new" /\ apEvent'[h] = e
         /\ apProcessed' = apProcessed \cup {e} /\ UNCHANGED <<apUnacked, queue>>
      \/ /\ apPc[h] = "save_new" /\ apPc'[h] = "inspect" /\ apEvent'[h] = e
         /\ escalation[e.invoice] # None
         /\ UNCHANGED <<apUnacked, apProcessed, queue>>
      \/ /\ apPc[h] = "inspect" /\ apPc'[h] = "reopen" /\ apEvent'[h] = e
         /\ UNCHANGED <<apUnacked, apProcessed, queue>>
      \/ /\ apPc[h] = "add" /\ apPc'[h] = "ack" /\ apEvent'[h] = e
         /\ queue' = queue \cup {e.invoice} /\ UNCHANGED <<apUnacked, apProcessed>>
      \/ /\ apPc[h] = "ack" /\ apPc'[h] = "idle" /\ apEvent'[h] = None
         /\ apUnacked' = apUnacked \ {e} /\ UNCHANGED <<apProcessed, queue>>
  <2>1. apPc[h] = "first_time" => e \notin apProcessed
    BY DEF ReviewInv, HandledOnce
  <2> QED BY <1>i, <2>1, HandlerFinds DEF Walks, HandlerTurns, Turns
<1>3. \A f : Unopened(f)' <=> Unopened(f)
  <2>1. ASSUME NEW f, f \in Asked PROVE f \in apUnacked' /\ Unopened(f)' <=> Unopened(f)
    <3>1. f # None
      <4>1. f \in Message
        BY <1>i, <2>1, AskedTyped
      <4> QED BY <4>1, IntakeAssumption
    <3>2. apPc[h] = "ack" /\ f # e => (\A g \in Handlers : apPc'[g] \in {"add", "ack"} => apEvent'[g] # f)
                             <=> (\A g \in Handlers : apPc[g] \in {"add", "ack"} => apEvent[g] # f)
      BY <1>2, <1>t
    <3>3. apPc[h] # "ack" => (\A g \in Handlers : apPc'[g] \in {"add", "ack"} => apEvent'[g] # f)
                             <=> (\A g \in Handlers : apPc[g] \in {"add", "ack"} => apEvent[g] # f)
      BY <1>2, <1>t
    <3>4. apPc[h] = "ack" /\ f = e => f \notin apUnacked' /\ ~Unopened(f)
      BY <1>2 DEF Unopened
    <3>5. ~(apPc[h] = "ack" /\ f = e) => (f \in apUnacked' <=> f \in apUnacked)
      BY <1>2
    <3> QED BY <1>1, <2>1, <3>2, <3>3, <3>4, <3>5 DEF Unopened
  <2> QED BY <1>1, <2>1 DEF Unopened
<1>4. \A g \in Handlers : apPc[g] # "idle" => apEvent[g] \in Asked /\ apEvent[g] \in apUnacked
  BY <1>i, HandlerFinds
<1>5. HandledOnce'
  <2>1. ASSUME NEW f \in Handlers, NEW g \in Handlers, apPc'[f] # "idle", apPc'[g] # "idle",
               apEvent'[f] = apEvent'[g]
        PROVE  f = g
    BY <1>2, <1>t, <2>1 DEF ReviewInv, HandledOnce
  <2>2. ASSUME NEW g \in Handlers, apPc'[g] = "first_time" PROVE apEvent'[g] \notin apProcessed'
    <3>1. CASE g # h
      <4>1. apPc[g] = "first_time" /\ apEvent'[g] = apEvent[g] /\ apEvent[g] \notin apProcessed
        BY <1>t, <2>2, <3>1 DEF ReviewInv, HandledOnce
      <4>2. apPc[h] # "idle" => apEvent[g] # e
        BY <3>1, <4>1 DEF ReviewInv, HandledOnce
      <4> QED BY <1>2, <4>1, <4>2
    <3>2. CASE g = h
      <4>1. /\ apPc[h] = "idle" /\ UNCHANGED apProcessed /\ apEvent'[h] \in apUnacked
            /\ \A k \in Handlers : apEvent[k] # apEvent'[h]
        BY <1>2, <2>2, <3>2
      <4> QED BY <3>2, <4>1 DEF ReviewInv, HandledOnce
    <3> QED BY <3>1, <3>2
  <2>3. ASSUME NEW f \in apUnacked', f \in apProcessed'
        PROVE  \E g \in Handlers : apPc'[g] # "idle" /\ apEvent'[g] = f
    <3>1. CASE f \in apProcessed
      <4>1. f \in apUnacked
        BY <1>2, <2>3
      <4>2. PICK g \in Handlers : apPc[g] # "idle" /\ apEvent[g] = f
        BY <3>1, <4>1 DEF ReviewInv, HandledOnce
      <4> QED BY <1>2, <1>t, <2>3, <4>2
    <3>2. CASE f \notin apProcessed
      BY <1>2, <2>3, <3>2
    <3> QED BY <3>1, <3>2
  <2> QED BY <2>1, <2>2, <2>3 DEF HandledOnce
<1>6. ReviewType'
  <2>1. ASSUME NEW g \in Handlers PROVE ReviewHandler(g)'
    <3>1. CASE g # h
      <4>1. ReviewHandler(g) /\ apPc'[g] = apPc[g] /\ apEvent'[g] = apEvent[g]
        BY <1>t, <3>1 DEF ReviewInv, ReviewType
      <4>2. apPc[g] # "idle" => apEvent[g] \in apUnacked'
        <5>1. apPc[g] # "idle" /\ apPc[h] # "idle" => apEvent[g] # e
          BY <3>1 DEF ReviewInv, HandledOnce
        <5> QED BY <1>2, <1>4, <5>1
      <4> QED BY <1>1, <4>1, <4>2 DEF ReviewHandler
    <3>2. CASE g = h
      <4>1. CASE apPc[h] = "idle"
        <5>1. apEvent'[h] \in Asked
          BY <1>2, <4>1 DEF ReviewInv, ReviewType, ReviewTypeOK, Asked, Decisions
        <5> QED BY <1>1, <1>2, <3>2, <4>1, <5>1 DEF ReviewHandler
      <4>2. CASE apPc[h] # "idle"
        BY <1>1, <1>2, <1>4, <3>2, <4>2 DEF ReviewHandler
      <4> QED BY <4>1, <4>2
    <3> QED BY <3>1, <3>2
  <2>2. \A a \in Approvers : ReviewApprover(a)'
    BY <1>u, <1>t DEF ReviewInv, ReviewType, ReviewApprover
  <2>3. apUnacked' \subseteq sent' /\ apProcessed' \subseteq sent'
    BY <1>u, <1>2, <1>4 DEF ReviewInv, ReviewType, Asked
  <2> QED BY <2>1, <2>2, <2>3 DEF ReviewType
<1>7. UnopenedInv'
  <2>1. \A g \in Handlers : apPc'[g] \in {"inspect", "reopen"} => escalation'[apEvent'[g].invoice] # None
    BY <1>u, <1>2, <1>t DEF ReviewInv, UnopenedInv
  <2> QED BY <1>u, <1>3, <2>1 DEF ReviewInv, UnopenedInv, Answered, Reviewed, Approval!HasStatus
<1>8. TellingInv'
  <2>1. \A i : \A a \in Approvers : Settling(a, i)' <=> Settling(a, i)
    BY <1>u, <1>t DEF Settling
  <2>2. \A a \in Approvers : Found(a)'
    BY <1>u, <1>t DEF ReviewInv, TellingInv, Found
  <2>3. \A r \in sent' : r.topic = "approval-resolved" => Told(r)'
    BY <1>u, <2>1 DEF ReviewInv, TellingInv, Told, Reviewed
  <2>4. \A i \in Invoices : Telling(i)'
    BY <1>u, <2>1 DEF ReviewInv, TellingInv, Telling, Reviewed
  <2> QED BY <2>2, <2>3, <2>4 DEF TellingInv
<1>9. OpenedInv'
  BY <1>u, <1>1, <1>3 DEF ReviewInv, OpenedInv, Reviewed
<1>10. QueueInv'
  <2>1. ASSUME NEW i \in Invoices PROVE Queued(i)'
    <3>1. Queued(i)
      BY DEF ReviewInv, QueueInv
    <3>2. \A g \in Handlers : apPc[g] = "add" /\ apEvent[g].invoice = i =>
            i \in queue' \/ (apPc'[g] = "add" /\ apEvent'[g].invoice = i)
      BY <1>2, <1>t
    <3>3. i \in queue => i \in queue'
      BY <1>2
    <3> QED BY <1>u, <1>t, <3>1, <3>2, <3>3 DEF Queued
  <2>2. \A a \in Approvers : apPc'[a] = "dequeue" => escalation'[request'[a].invoice] # None
    BY <1>u, <1>t DEF ReviewInv, QueueInv
  <2> QED BY <2>1, <2>2 DEF QueueInv
<1> QED BY <1>5, <1>6, <1>7, <1>8, <1>9, <1>10 DEF ReviewInv

\* A handler opens a review: nobody was about to publish or to roll back another.
LEMMA OpenKeeps ==
  ASSUME IntakeInv, ReviewInv, UNCHANGED vars, ReviewTypeOK', NEW h \in Handlers, Opens(h)
  PROVE  ReviewInv'
<1> DEFINE e == apEvent[h]
           i == e.invoice
<1>u. UNCHANGED <<sent, request, apEvent, apUnacked, apProcessed, queue>>
  BY DEF Opens, HandlerTurns, vars, bus
<1>t. /\ apPc'[h] = "add" /\ apPc[h] \in {"save_new", "reopen"}
      /\ \A x \in (Handlers \cup Approvers) \ {h} : apPc'[x] = apPc[x]
      /\ \A a \in Approvers : a # h /\ apPc'[a] = apPc[a]
  BY ReviewWorkers DEF Opens, HandlerTurns, Turns
<1>i. TypeInv
  BY DEF IntakeInv
<1>e. /\ Unopened(e) /\ e \in Asked /\ i \in Invoices /\ e \in Decisions /\ e.version \in Nat
      /\ e.topic = "decision-made" /\ e \in sent
  BY <1>i, <1>t, HandlerFinds, AskedTyped
<1>r. /\ escalation'[i].review = e /\ escalation'[i].status = "pending" /\ escalation'[i] # None
      /\ \A j \in Invoices \ {i} : escalation'[j] = escalation[j]
  <2> DEFINE r == [status |-> "pending", review |-> e, by |-> None]
  <2>1. r \in Approval!Escalation
    BY <1>e DEF Approval!Escalation, Approval!Statuses
  <2>2. r # None
    BY <2>1, SentinelAssumption
  <2> QED BY <2>2 DEF Opens, Becomes
<1>n. \A a \in Approvers : ~Settling(a, i)
  BY <1>e, UnopenedIsCurrent
<1>1. Asked' = Asked
  BY <1>u DEF Asked
<1>2. \A f : Unopened(f)' <=> Unopened(f) /\ f # e
  <2>1. ASSUME NEW f
        PROVE  (\A g \in Handlers : apPc'[g] \in {"add", "ack"} => apEvent'[g] # f)
                 <=> f # e /\ \A g \in Handlers : apPc[g] \in {"add", "ack"} => apEvent[g] # f
    BY <1>u, <1>t
  <2> QED BY <1>u, <1>1, <2>1 DEF Unopened
<1>3. ReviewType'
  <2>1. ASSUME NEW g \in Handlers PROVE ReviewHandler(g)'
    BY <1>u, <1>1, <1>t DEF ReviewInv, ReviewType, ReviewHandler
  <2>2. \A a \in Approvers : ReviewApprover(a)'
    BY <1>u, <1>t DEF ReviewInv, ReviewType, ReviewApprover
  <2> QED BY <1>u, <2>1, <2>2 DEF ReviewInv, ReviewType
<1>4. HandledOnce'
  <2>1. \A g \in Handlers : (apPc'[g] # "idle" <=> apPc[g] # "idle")
                           /\ (apPc'[g] = "first_time" => apPc[g] = "first_time")
    BY <1>t
  <2> QED BY <1>u, <2>1 DEF ReviewInv, HandledOnce
<1>5. UnopenedInv'
  <2>1. ASSUME NEW f \in Decisions, Unopened(f)'
        PROVE  /\ f.invoice \in Invoices \ {i} /\ Unopened(f)
    <3>1. Unopened(f) /\ f # e /\ f.invoice \in Invoices
      BY <1>2, <2>1, ReviewSays
    <3> QED BY <1>e, <3>1, UnopenedIsCurrent
  <2>2. ASSUME NEW g \in Handlers, apPc'[g] \in {"inspect", "reopen"}
        PROVE  escalation'[apEvent'[g].invoice] # None
    <3>1. g # h /\ apPc[g] \in {"inspect", "reopen"} /\ apEvent'[g] = apEvent[g]
      BY <1>u, <1>t, <2>2
    <3>2. escalation[apEvent[g].invoice] # None /\ apEvent[g].invoice \in Invoices
      BY <1>i, <3>1, HandlerFinds DEF ReviewInv, UnopenedInv
    <3> QED BY <1>r, <3>1, <3>2
  <2> QED BY <1>u, <1>r, <2>1, <2>2 DEF ReviewInv, UnopenedInv, Answered, Reviewed, Approval!HasStatus
<1>6. TellingInv'
  <2>1. \A j : \A a \in Approvers : Settling(a, j)' <=> Settling(a, j)
    BY <1>u, <1>t DEF Settling
  <2>2. ASSUME NEW a \in Approvers PROVE Found(a)'
    <3> SUFFICES ASSUME apPc'[a] \in {"publish", "revert"} PROVE Found(a)'
      BY DEF Found
    <3>1. apPc[a] \in {"publish", "revert"} /\ request'[a] = request[a] /\ Found(a)
      BY <1>u, <1>t DEF ReviewInv, TellingInv
    <3>2. request[a].invoice \in Invoices \ {i}
      BY <1>n, <3>1, FoundTyped DEF Settling
    <3> QED BY <1>r, <3>1, <3>2 DEF Found
  <2>3. ASSUME NEW r \in sent', r.topic = "approval-resolved" PROVE Told(r)'
    <3>1. r \in sent /\ Told(r) /\ r.invoice \in Invoices /\ r.version \in Nat
      BY <1>u, <1>i, <2>3 DEF ReviewInv, TellingInv, TypeInv, TypeOK, Message, Versions
    <3>2. CASE r.invoice # i
      BY <1>r, <2>1, <3>1, <3>2 DEF Told, Reviewed
    <3>3. CASE r.invoice = i
      <4>1. escalation[i] # None
        BY <3>1, <3>3 DEF Told
      <4>2. Reviewed(i).version < e.version
        BY <1>e, <4>1 DEF ReviewInv, UnopenedInv
      <4>3. Reviewed(i).version \in Nat
        BY <1>e, <1>i, <4>1, AskedTyped DEF ReviewInv, OpenedInv
      <4>4. r.version <= Reviewed(i).version
        BY <3>1, <3>3, <4>3 DEF Told
      <4>5. r.version < e.version
        BY <1>e, <3>1, <4>2, <4>3, <4>4
      <4> QED BY <1>r, <3>3, <4>5 DEF Told, Reviewed
    <3> QED BY <3>2, <3>3
  <2>4. ASSUME NEW j \in Invoices PROVE Telling(j)'
    <3>1. CASE j = i
      BY <1>r, <3>1 DEF Telling
    <3>2. CASE j # i
      BY <1>u, <1>r, <2>1, <3>2 DEF ReviewInv, TellingInv, Telling, Reviewed
    <3> QED BY <3>1, <3>2
  <2> QED BY <2>2, <2>3, <2>4 DEF TellingInv
<1>7. OpenedInv'
  <2>1. ASSUME NEW j \in Invoices, escalation'[j] # None
        PROVE  Reviewed(j)' \in Asked' /\ Reviewed(j)'.invoice = j
    <3>1. CASE j = i
      BY <1>1, <1>e, <1>r, <3>1 DEF Reviewed
    <3>2. CASE j # i
      BY <1>1, <1>r, <2>1, <3>2 DEF ReviewInv, OpenedInv, Reviewed
    <3> QED BY <3>1, <3>2
  <2>2. ASSUME NEW f \in Asked', ~Unopened(f)'
        PROVE  escalation'[f.invoice] # None /\ f.version <= Reviewed(f.invoice)'.version
    <3>1. f \in Asked /\ (~Unopened(f) \/ f = e)
      BY <1>1, <1>2, <2>2
    <3>2. CASE f = e
      BY <1>e, <1>r, <3>2 DEF Reviewed
    <3>3. CASE ~Unopened(f) /\ f.invoice # i
      BY <1>i, <1>r, <3>1, <3>3, AskedTyped DEF ReviewInv, OpenedInv, Reviewed
    <3>4. CASE ~Unopened(f) /\ f.invoice = i
      <4>1. escalation[i] # None /\ f.version <= Reviewed(i).version
        BY <3>1, <3>4 DEF ReviewInv, OpenedInv
      <4>2. Reviewed(i).version < e.version
        BY <1>e, <4>1 DEF ReviewInv, UnopenedInv
      <4>3. Reviewed(i).version \in Nat /\ f.version \in Nat
        BY <1>e, <1>i, <3>1, <4>1, AskedTyped DEF ReviewInv, OpenedInv
      <4> QED BY <1>e, <1>r, <3>4, <4>1, <4>2, <4>3 DEF Reviewed
    <3> QED BY <3>1, <3>2, <3>3, <3>4
  <2> QED BY <2>1, <2>2 DEF OpenedInv
<1>8. QueueInv'
  <2>1. ASSUME NEW a \in Approvers, apPc'[a] = "dequeue" PROVE escalation'[request'[a].invoice] # None
    <3>1. apPc[a] = "dequeue" /\ escalation[request[a].invoice] # None /\ request'[a] = request[a]
      BY <1>u, <1>t, <2>1 DEF ReviewInv, QueueInv
    <3>2. request[a].invoice \in Invoices
      BY <3>1, RequestTyped DEF ReviewInv
    <3> QED BY <1>r, <3>1, <3>2
  <2>2. ASSUME NEW j \in Invoices PROVE Queued(j)'
    <3>0. Queued(j)
      BY DEF ReviewInv, QueueInv
    <3>1. CASE j = i
      <4>1. ASSUME NEW a \in Approvers, apPc[a] = "dequeue", request[a].invoice = i
            PROVE  overtaken'[i] # {}
        <5>1. escalation[i] # None
          BY <4>1 DEF ReviewInv, QueueInv
        <5> QED BY <4>1, <5>1 DEF Opens, Overtakes
      <4> QED BY <1>u, <1>t, <1>r, <3>1, <4>1 DEF Queued
    <3>2. CASE j # i
      <4>1. overtaken'[j] = overtaken[j]
        BY <3>2 DEF Opens, Overtakes
      <4>2. \A g \in Handlers : apPc[g] = "add" => apPc'[g] = "add"
        BY <1>t
      <4> QED BY <1>u, <1>t, <1>r, <3>0, <3>2, <4>1, <4>2 DEF Queued
    <3> QED BY <3>1, <3>2
  <2> QED BY <2>1, <2>2 DEF QueueInv
<1> QED BY <1>3, <1>4, <1>5, <1>6, <1>7, <1>8 DEF ReviewInv

\* While an approver moves, the handlers' side is as it was.
LEMMA ApproversApart ==
  ASSUME ReviewInv, ReviewTypeOK', NEW a \in Approvers, NEW next, ApproverTurns(a, next),
         ReviewApprover(a)', Asked' = Asked, sent \subseteq sent'
  PROVE  /\ ReviewType' /\ HandledOnce'
         /\ \A f : Unopened(f)' <=> Unopened(f)
         /\ \A h \in Handlers : apPc'[h] = apPc[h]
         /\ \A b \in Approvers \ {a} : apPc'[b] = apPc[b] /\ request'[b] = request[b]
         /\ UNCHANGED <<apEvent, apUnacked, apProcessed>> /\ apPc'[a] = next
<1>1. /\ \A h \in Handlers : apPc'[h] = apPc[h]
      /\ \A b \in Approvers \ {a} : apPc'[b] = apPc[b] /\ request'[b] = request[b]
      /\ UNCHANGED <<apEvent, apUnacked, apProcessed>> /\ apPc'[a] = next
  BY ReviewWorkers DEF ApproverTurns, Turns
<1>2. \A f : Unopened(f)' <=> Unopened(f)
  BY <1>1 DEF Unopened
<1>3. HandledOnce'
  BY <1>1 DEF ReviewInv, HandledOnce
<1>4. \A h \in Handlers : ReviewHandler(h)'
  BY <1>1 DEF ReviewInv, ReviewType, ReviewHandler
<1>5. ASSUME NEW b \in Approvers PROVE ReviewApprover(b)'
  <2>1. CASE b # a
    BY <1>1, <2>1 DEF ReviewInv, ReviewType, ReviewApprover
  <2> QED BY <2>1
<1>6. ReviewType'
  BY <1>1, <1>4, <1>5 DEF ReviewInv, ReviewType
<1> QED BY <1>1, <1>2, <1>3, <1>6

\* An approver settles the review that is pending: it was opened with the latest
\* decision, no verdict on which was published.
LEMMA SettleKeeps ==
  ASSUME IntakeInv, ReviewInv, UNCHANGED vars, ReviewTypeOK', NEW a \in Approvers, Settles(a)
  PROVE  ReviewInv'
<1> DEFINE i == request[a].invoice
           d == escalation[i].review
           s == request[a].verdict
<1>u. /\ apPc[a] = "resolve" /\ ApproverTurns(a, "publish")
      /\ escalation[i] # None /\ escalation[i].status = "pending"
      /\ request'[a] = [request[a] EXCEPT !.review = d]
      /\ escalation'[i] = [status |-> s, review |-> d, by |-> a]
      /\ \A j \in Invoices \ {i} : escalation'[j] = escalation[j]
      /\ UNCHANGED <<queue, overtaken, sent>>
  BY DEF Settles, Becomes, Approval!HasStatus, vars, bus
<1>i. TypeInv
  BY DEF IntakeInv
<1>d. /\ request[a] \in Approval!Request /\ i \in Invoices /\ s \in Verdicts
      /\ d \in Asked /\ d.invoice = i /\ d \in Decisions /\ d.version \in Nat
  <2>1. request[a] \in Approval!Request /\ i \in Invoices /\ s \in Verdicts
    BY <1>u, RequestTyped DEF ReviewInv
  <2>2. d \in Asked /\ d.invoice = i
    BY <1>u, <2>1 DEF ReviewInv, OpenedInv, Reviewed
  <2> QED BY <1>i, <2>1, <2>2, AskedTyped
<1>r. /\ request'[a] \in Approval!Request /\ request'[a].invoice = i
      /\ request'[a].verdict = s /\ request'[a].review = d
  BY <1>u, <1>d DEF Approval!Request
<1>e. /\ escalation'[i].status = s /\ escalation'[i].review = d
      /\ escalation'[i] # None /\ s # "pending"
  <2>1. [status |-> s, review |-> d, by |-> a] \in Approval!Escalation
    BY <1>d DEF Approval!Escalation, Approval!Statuses, Approval!Final, Verdicts
  <2> QED BY <1>u, <1>d, <2>1, SentinelAssumption DEF Verdicts
<1> HIDE DEF s
<1>1. Asked' = Asked
  BY <1>u DEF Asked
<1>2. /\ ReviewType' /\ HandledOnce'
      /\ \A f : Unopened(f)' <=> Unopened(f)
      /\ \A h \in Handlers : apPc'[h] = apPc[h]
      /\ \A b \in Approvers \ {a} : apPc'[b] = apPc[b] /\ request'[b] = request[b]
      /\ UNCHANGED <<apEvent, apUnacked, apProcessed>> /\ apPc'[a] = "publish"
  <2>1. apPc'[a] = "publish"
    BY <1>u DEF ApproverTurns, Turns
  <2>2. ReviewApprover(a)'
    BY <1>r, <1>d, <2>1 DEF ReviewApprover
  <2> QED BY <1>u, <1>1, <2>2, ApproversApart
<1>3. ASSUME NEW b \in Approvers, Settling(b, i) PROVE FALSE
  BY <1>u, <1>3, FoundTyped DEF Settling, Verdicts
<1>4. UnopenedInv'
  <2>1. ASSUME NEW f \in Decisions, Unopened(f) PROVE f.invoice \in Invoices \ {i}
    BY <1>u, <2>1, ReviewSays DEF ReviewInv, UnopenedInv, Approval!HasStatus
  <2>2. ASSUME NEW h \in Handlers, apPc'[h] \in {"inspect", "reopen"}
        PROVE  escalation'[apEvent'[h].invoice] # None
    <3>1. apPc[h] \in {"inspect", "reopen"} /\ apEvent'[h] = apEvent[h]
      BY <1>2, <2>2
    <3>2. escalation[apEvent[h].invoice] # None /\ apEvent[h].invoice \in Invoices
      BY <1>i, <3>1, HandlerFinds DEF ReviewInv, UnopenedInv
    <3> QED BY <1>e, <1>u, <3>1, <3>2
  <2> QED BY <1>u, <1>2, <2>1, <2>2 DEF ReviewInv, UnopenedInv, Answered, Reviewed, Approval!HasStatus
<1>5. TellingInv'
  <2>1. ASSUME NEW b \in Approvers PROVE Found(b)'
    <3>1. CASE b = a
      BY <1>u, <1>r, <3>1 DEF Found
    <3>2. CASE b # a
      <4> SUFFICES ASSUME apPc'[b] \in {"publish", "revert"} PROVE Found(b)'
        BY DEF Found
      <4>1. apPc[b] \in {"publish", "revert"} /\ request'[b] = request[b] /\ Found(b)
        BY <1>2, <3>2 DEF ReviewInv, TellingInv
      <4>2. request[b].invoice \in Invoices \ {i}
        BY <1>3, <4>1, FoundTyped DEF Settling
      <4> QED BY <1>u, <4>1, <4>2 DEF Found
    <3> QED BY <3>1, <3>2
  <2>2. ASSUME NEW r \in sent', r.topic = "approval-resolved" PROVE Told(r)'
    <3>1. r \in sent /\ Told(r) /\ r.invoice \in Invoices /\ r.version \in Nat
      BY <1>u, <1>i, <2>2 DEF ReviewInv, TellingInv, TypeInv, TypeOK, Message, Versions
    <3>2. CASE r.invoice # i
      <4>1. \A b \in Approvers : Settling(b, r.invoice)' => Settling(b, r.invoice)
        BY <1>2, <1>r, <3>2 DEF Settling
      <4> QED BY <1>u, <3>1, <3>2, <4>1 DEF Told, Reviewed
    <3>3. CASE r.invoice = i
      <4>1. r.outcome # "pending"
        <5>1. r.outcome \in Verdicts
          BY <1>i, <2>2, <3>1 DEF TypeInv, Holding, Worded
        <5> QED BY <5>1 DEF Verdicts
      <4>2. r.version < d.version
        BY <1>u, <3>1, <3>3, <4>1 DEF Told, Reviewed
      <4> QED BY <1>e, <3>3, <4>2 DEF Told, Reviewed
    <3> QED BY <3>2, <3>3
  <2>3. ASSUME NEW j \in Invoices PROVE Telling(j)'
    <3>1. CASE j = i
      <4>1. apPc'[a] = "publish" /\ request'[a].invoice = i
        BY <1>2, <1>r
      <4> QED BY <3>1, <4>1 DEF Telling, Settling
    <3>2. CASE j # i
      <4>1. \A b \in Approvers : Settling(b, j) => Settling(b, j)'
        <5>1. ~Settling(a, j)
          BY <1>u DEF Settling
        <5> QED BY <1>2, <5>1 DEF Settling
      <4> QED BY <1>u, <3>2, <4>1 DEF ReviewInv, TellingInv, Telling, Reviewed
    <3> QED BY <3>1, <3>2
  <2> QED BY <2>1, <2>2, <2>3 DEF TellingInv
<1>6. OpenedInv'
  <2>1. \A j \in Invoices : /\ escalation'[j] # None <=> escalation[j] # None
                            /\ escalation[j] # None => escalation'[j].review = escalation[j].review
    BY <1>u, <1>e
  <2>2. \A f \in Asked : f.invoice \in Invoices
    BY <1>i, AskedTyped
  <2> QED BY <1>1, <1>2, <2>1, <2>2 DEF ReviewInv, OpenedInv, Reviewed
<1>7. QueueInv'
  <2>1. ASSUME NEW b \in Approvers, apPc'[b] = "dequeue" PROVE escalation'[request'[b].invoice] # None
    <3>1. apPc[b] = "dequeue" /\ escalation[request[b].invoice] # None /\ request'[b] = request[b]
      BY <1>2, <2>1 DEF ReviewInv, QueueInv
    <3>2. request[b].invoice \in Invoices
      BY <3>1, RequestTyped DEF ReviewInv
    <3> QED BY <1>u, <1>e, <3>1, <3>2
  <2>2. ASSUME NEW j \in Invoices PROVE Queued(j)'
    <3>1. CASE j = i
      BY <1>e, <3>1 DEF Queued
    <3>2. CASE j # i
      <4>1. Queued(j)
        BY DEF ReviewInv, QueueInv
      <4>2. \A b \in Approvers : apPc[b] = "requeue" => apPc'[b] = "requeue" /\ request'[b] = request[b]
        BY <1>u, <1>2
      <4>3. \A b \in Approvers : apPc'[b] = "dequeue" => apPc[b] = "dequeue" /\ request'[b] = request[b]
        BY <1>2
      <4> QED BY <1>u, <1>2, <3>2, <4>1, <4>2, <4>3 DEF Queued
    <3> QED BY <3>1, <3>2
  <2> QED BY <2>1, <2>2 DEF QueueInv
<1> QED BY <1>2, <1>4, <1>5, <1>6, <1>7 DEF ReviewInv

\* An approver rolls a review back: nobody else has settled it, and no verdict on it
\* was published.
LEMMA RevertKeeps ==
  ASSUME IntakeInv, ReviewInv, UNCHANGED vars, ReviewTypeOK', NEW a \in Approvers, Reverts(a)
  PROVE  ReviewInv'
<1> DEFINE i == request[a].invoice
           d == escalation[i].review
<1>u. /\ apPc[a] = "revert" /\ ApproverTurns(a, "requeue")
      /\ escalation'[i] = [status |-> "pending", review |-> d, by |-> None]
      /\ \A j \in Invoices \ {i} : escalation'[j] = escalation[j]
      /\ UNCHANGED <<queue, request, sent>>
  BY DEF Reverts, Becomes, vars, bus
<1>i. TypeInv
  BY DEF IntakeInv
<1>d. /\ request[a] \in Approval!Request /\ i \in Invoices /\ request[a].review \in Decisions
      /\ d \in Asked /\ d.invoice = i /\ d \in Decisions /\ d.version \in Nat
      /\ escalation[i] # None /\ escalation[i].by = a /\ escalation[i].status \in Verdicts
  <2>1. /\ request[a] \in Approval!Request /\ i \in Invoices /\ request[a].review \in Decisions
    BY <1>u, RequestTyped DEF ReviewInv, ReviewType, ReviewApprover
  <2>2. /\ d \in Asked /\ d.invoice = i /\ escalation[i] # None /\ escalation[i].by = a
        /\ escalation[i].status \in Verdicts
    BY <1>u, FoundTyped DEF Reviewed
  <2> QED BY <1>i, <2>1, <2>2, AskedTyped
<1>e. /\ escalation'[i].status = "pending" /\ escalation'[i].review = d /\ escalation'[i] # None
  <2>1. [status |-> "pending", review |-> d, by |-> None] \in Approval!Escalation
    BY <1>d DEF Approval!Escalation, Approval!Statuses
  <2> QED BY <1>u, <2>1, SentinelAssumption
<1>1. Asked' = Asked
  BY <1>u DEF Asked
<1>2. /\ ReviewType' /\ HandledOnce'
      /\ \A f : Unopened(f)' <=> Unopened(f)
      /\ \A h \in Handlers : apPc'[h] = apPc[h]
      /\ \A b \in Approvers \ {a} : apPc'[b] = apPc[b]
      /\ UNCHANGED <<apEvent, apUnacked, apProcessed>> /\ apPc'[a] = "requeue"
  <2>1. apPc'[a] = "requeue"
    BY <1>u DEF ApproverTurns, Turns
  <2>2. ReviewApprover(a)'
    BY <1>u, <1>d, <2>1 DEF ReviewApprover
  <2> QED BY <1>u, <1>1, <2>2, ApproversApart
<1>3. ASSUME NEW b \in Approvers, Settling(b, i) PROVE b = a
  BY <1>d, <1>3, FoundTyped DEF Settling
<1>4. UnopenedInv'
  <2>1. ASSUME NEW f \in Decisions, Unopened(f) PROVE f.invoice \in Invoices \ {i}
    BY <1>u, <2>1, ReviewSays, UnopenedIsCurrent DEF Settling
  <2>2. ASSUME NEW h \in Handlers, apPc'[h] \in {"inspect", "reopen"}
        PROVE  escalation'[apEvent'[h].invoice] # None
    <3>1. apPc[h] \in {"inspect", "reopen"} /\ apEvent'[h] = apEvent[h]
      BY <1>2, <2>2
    <3>2. escalation[apEvent[h].invoice] # None /\ apEvent[h].invoice \in Invoices
      BY <1>i, <3>1, HandlerFinds DEF ReviewInv, UnopenedInv
    <3> QED BY <1>e, <1>u, <3>1, <3>2
  <2> QED BY <1>u, <1>2, <2>1, <2>2 DEF ReviewInv, UnopenedInv, Answered, Reviewed, Approval!HasStatus
<1>5. TellingInv'
  <2>1. ASSUME NEW b \in Approvers PROVE Found(b)'
    <3> SUFFICES ASSUME apPc'[b] \in {"publish", "revert"} PROVE Found(b)'
      BY DEF Found
    <3>1. b # a /\ apPc[b] \in {"publish", "revert"} /\ request'[b] = request[b] /\ Found(b)
      BY <1>u, <1>2 DEF ReviewInv, TellingInv
    <3>2. request[b].invoice \in Invoices \ {i}
      BY <1>3, <3>1, FoundTyped DEF Settling
    <3> QED BY <1>u, <3>1, <3>2 DEF Found
  <2>2. ASSUME NEW r \in sent', r.topic = "approval-resolved" PROVE Told(r)'
    <3>1. r \in sent /\ Told(r) /\ r.invoice \in Invoices /\ r.version \in Nat
      BY <1>u, <1>i, <2>2 DEF ReviewInv, TellingInv, TypeInv, TypeOK, Message, Versions
    <3>2. CASE r.invoice # i
      <4>1. \A b \in Approvers : Settling(b, r.invoice)' => Settling(b, r.invoice)
        BY <1>u, <1>2 DEF Settling
      <4> QED BY <1>u, <3>1, <3>2, <4>1 DEF Told, Reviewed
    <3>3. CASE r.invoice = i
      <4>1. r.version < d.version
        <5>1. Settling(a, r.invoice)
          BY <1>u, <3>3 DEF Settling
        <5> QED BY <3>1, <3>3, <5>1 DEF Told, Reviewed
      <4> QED BY <1>e, <3>3, <4>1 DEF Told, Reviewed
    <3> QED BY <3>2, <3>3
  <2>3. ASSUME NEW j \in Invoices PROVE Telling(j)'
    <3>1. CASE j = i
      BY <1>e, <3>1 DEF Telling
    <3>2. CASE j # i
      <4>1. \A b \in Approvers : Settling(b, j) => Settling(b, j)'
        BY <1>u, <1>2, <3>2 DEF Settling
      <4> QED BY <1>u, <3>2, <4>1 DEF ReviewInv, TellingInv, Telling, Reviewed
    <3> QED BY <3>1, <3>2
  <2> QED BY <2>1, <2>2, <2>3 DEF TellingInv
<1>6. OpenedInv'
  <2>1. \A j \in Invoices : /\ escalation'[j] # None <=> escalation[j] # None
                            /\ escalation[j] # None => escalation'[j].review = escalation[j].review
    BY <1>u, <1>e, <1>d
  <2>2. \A f \in Asked : f.invoice \in Invoices
    BY <1>i, AskedTyped
  <2> QED BY <1>1, <1>2, <2>1, <2>2 DEF ReviewInv, OpenedInv, Reviewed
<1>7. QueueInv'
  <2>1. ASSUME NEW b \in Approvers, apPc'[b] = "dequeue" PROVE escalation'[request'[b].invoice] # None
    <3>1. apPc[b] = "dequeue" /\ escalation[request[b].invoice] # None /\ request'[b] = request[b]
      BY <1>u, <1>2, <2>1 DEF ReviewInv, QueueInv
    <3>2. request[b].invoice \in Invoices
      BY <3>1, RequestTyped DEF ReviewInv
    <3> QED BY <1>u, <1>e, <3>1, <3>2
  <2>2. ASSUME NEW j \in Invoices PROVE Queued(j)'
    <3>0. \A b \in Approvers : apPc'[b] = "dequeue" => apPc[b] = "dequeue"
      BY <1>2
    <3>1. CASE j = i
      <4>1. \A b \in Approvers : apPc[b] = "dequeue" /\ request[b].invoice = i => overtaken'[j] # {}
        BY <3>1 DEF Reverts, Overtakes
      <4> QED BY <1>u, <1>2, <3>0, <3>1, <4>1 DEF Queued
    <3>2. CASE j # i
      <4>1. Queued(j)
        BY DEF ReviewInv, QueueInv
      <4>2. \A b \in Approvers : apPc[b] = "requeue" => apPc'[b] = "requeue"
        BY <1>u, <1>2
      <4>3. overtaken'[j] = overtaken[j]
        BY <3>2 DEF Reverts, Overtakes
      <4> QED BY <1>u, <1>2, <3>0, <3>2, <4>1, <4>2, <4>3 DEF Queued
    <3> QED BY <3>1, <3>2
  <2> QED BY <2>1, <2>2 DEF QueueInv
<1> QED BY <1>2, <1>4, <1>5, <1>6, <1>7 DEF ReviewInv

\* An approver goes on without a change of the review.
LEMMA AttendKeeps ==
  ASSUME IntakeInv, ReviewInv, UNCHANGED vars, ReviewTypeOK', NEW a \in Approvers, Attends(a)
  PROVE  ReviewInv'
<1> DEFINE i == request[a].invoice
<1>i. TypeInv
  BY DEF IntakeInv
<1>u. UNCHANGED <<sent, escalation, overtaken>> /\ ApproverTurns(a, apPc'[a])
  BY DEF Attends, ApproverTurns, Turns, vars, bus
<1>c. \/ /\ apPc[a] = "idle" /\ apPc'[a] = "resolve"
         /\ request'[a] \in Approval!Request /\ UNCHANGED queue
      \/ apPc[a] = "resolve" /\ apPc'[a] = "idle" /\ UNCHANGED queue
      \/ /\ apPc[a] = "publish" /\ apPc'[a] = "revert" /\ request'[a] = request[a]
         /\ UNCHANGED queue
      \/ apPc[a] = "dequeue" /\ apPc'[a] = "idle" /\ queue' = queue \ {i}
      \/ apPc[a] = "requeue" /\ apPc'[a] = "idle" /\ queue' = queue \cup {i}
  BY DEF Attends, ApproverTurns, Turns
<1>1. Asked' = Asked
  BY <1>u DEF Asked
<1>2. /\ ReviewType' /\ HandledOnce'
      /\ \A f : Unopened(f)' <=> Unopened(f)
      /\ \A h \in Handlers : apPc'[h] = apPc[h]
      /\ \A b \in Approvers \ {a} : apPc'[b] = apPc[b] /\ request'[b] = request[b]
      /\ UNCHANGED <<apEvent, apUnacked, apProcessed>>
  <2>1. ReviewApprover(a)'
    BY <1>c DEF ReviewInv, ReviewType, ReviewApprover
  <2> QED BY <1>u, <1>1, <2>1, ApproversApart
<1>3. \A j : \A b \in Approvers : Settling(b, j)' <=> Settling(b, j)
  BY <1>c, <1>2 DEF Settling
<1>4. UnopenedInv'
  BY <1>u, <1>2 DEF ReviewInv, UnopenedInv, Answered, Reviewed, Approval!HasStatus
<1>5. TellingInv'
  <2>1. ASSUME NEW b \in Approvers PROVE Found(b)'
    <3>1. apPc'[b] \in {"publish", "revert"} =>
            apPc[b] \in {"publish", "revert"} /\ request'[b] = request[b]
      BY <1>c, <1>2
    <3> QED BY <1>u, <3>1 DEF ReviewInv, TellingInv, Found
  <2>2. \A r \in sent' : r.topic = "approval-resolved" => Told(r)'
    BY <1>u, <1>3 DEF ReviewInv, TellingInv, Told, Reviewed
  <2>3. \A j \in Invoices : Telling(j)'
    BY <1>u, <1>3 DEF ReviewInv, TellingInv, Telling, Reviewed
  <2> QED BY <2>1, <2>2, <2>3 DEF TellingInv
<1>6. OpenedInv'
  BY <1>u, <1>1, <1>2 DEF ReviewInv, OpenedInv, Reviewed
<1>7. QueueInv'
  <2>1. ASSUME NEW b \in Approvers, apPc'[b] = "dequeue"
        PROVE  apPc[b] = "dequeue" /\ request'[b] = request[b]
    BY <1>c, <1>2, <2>1
  <2>2. ASSUME NEW j \in Invoices, escalation[j] # None, overtaken[j] = {},
               escalation[j].status = "pending"
        PROVE  \/ j \in queue'
               \/ \E h \in Handlers : apPc'[h] = "add" /\ apEvent'[h].invoice = j
               \/ \E b \in Approvers : apPc'[b] = "requeue" /\ request'[b].invoice = j
    <3>1. \/ j \in queue
          \/ \E h \in Handlers : apPc[h] = "add" /\ apEvent[h].invoice = j
          \/ \E b \in Approvers : apPc[b] = "requeue" /\ request[b].invoice = j
      BY <2>2 DEF ReviewInv, QueueInv, Queued
    <3>2. j \in queue => j \in queue'
      <4>1. apPc[a] = "dequeue" => i # j
        BY <2>2 DEF ReviewInv, QueueInv, Queued
      <4> QED BY <1>c, <4>1
    <3>3. ASSUME NEW b \in Approvers, apPc[b] = "requeue", request[b].invoice = j
          PROVE  j \in queue' \/ (apPc'[b] = "requeue" /\ request'[b].invoice = j)
      <4>1. CASE b = a
        <5>1. apPc[a] = "requeue" /\ request[a].invoice = j
          BY <3>3, <4>1
        <5>2. queue' = queue \cup {request[a].invoice}
          BY <1>c, <5>1
        <5> QED BY <5>1, <5>2
      <4>2. CASE b # a
        BY <1>2, <3>3, <4>2
      <4> QED BY <4>1, <4>2
    <3> QED BY <1>2, <3>1, <3>2, <3>3
  <2> QED BY <1>u, <2>1, <2>2 DEF ReviewInv, QueueInv, Queued
<1> QED BY <1>2, <1>4, <1>5, <1>6, <1>7 DEF ReviewInv

\* What is published then has the id of a first answer.
LEMMA ResolutionSays ==
  ASSUME OnceSoFar, NEW a
  PROVE  Resolution(a) = Msg("approval-resolved", request[a].invoice, request[a].review.version,
                             request[a].verdict)
<1>1. apFaults["lost"] = 0
  BY DEF OnceSoFar, CountedFaults, AnsweredOnce, Approval!Suffered, Approval!AllFaultKinds
<1> QED BY <1>1 DEF Resolution, Msg

\* An approver publishes the verdict: it is about a decision that asked for a human and
\* that no verdict answered, since nobody else settles its review.
LEMMA PublishSays ==
  ASSUME IntakeInv, ReviewInv, OnceSoFar, NEW a \in Approvers, ApprovalPublish(a)
  PROVE  LET i == request[a].invoice
             d == request[a].review
             m == Msg("approval-resolved", i, d.version, request[a].verdict)
         IN /\ d \in Asked /\ d.invoice = i /\ i \in Invoices /\ d.version \in Versions
            /\ request[a].verdict \in Verdicts
            /\ ~Answered({"approval-resolved"}, i, d.version)
            /\ sent' = sent \cup {m} /\ m \in Message /\ m.topic = "approval-resolved"
            /\ Broadcast(m)
            /\ apPc[a] = "publish"
            /\ UNCHANGED <<apUnacked, apProcessed, escalation, queue, overtaken, apEvent, request>>
            /\ ApproverTurns(a, "dequeue") /\ ReviewTypeOK'
<1> DEFINE i == request[a].invoice
           d == request[a].review
           m == Msg("approval-resolved", i, d.version, request[a].verdict)
<1>1. /\ Approval!Publish(a) /\ Announce(m) /\ apPc[a] = "publish"
  BY ResolutionSays DEF ApprovalPublish, Approval!Publish
<1>2. /\ i \in Invoices /\ request[a].verdict \in Verdicts /\ d \in Asked /\ d.invoice = i
      /\ escalation[i] # None /\ Reviewed(i) = d
  BY <1>1, FoundTyped
<1>3. d.version \in Versions
  BY <1>2, AskedTyped DEF IntakeInv
<1>4. m \in Message /\ m.topic = "approval-resolved"
  BY <1>2, <1>3, MsgTyped, MsgParts
<1>5. ASSUME NEW r \in sent, r.topic = "approval-resolved", r.invoice = i, r.version = d.version
      PROVE  FALSE
  <2>1. Told(r)
    BY <1>5 DEF ReviewInv, TellingInv
  <2>2. Settling(a, i)
    BY <1>1 DEF Settling
  <2>3. d.version \in Nat
    BY <1>3 DEF Versions
  <2> QED BY <1>2, <1>5, <2>1, <2>2, <2>3 DEF Told
<1>6. sent' = sent \cup {m} /\ apUnacked' = apUnacked \cup ({m} \cap Decisions) /\ Broadcast(m)
  BY <1>1 DEF Announce, Broadcast
<1> HIDE DEF m
<1>7. {m} \cap Decisions = {}
  BY <1>4 DEF Decisions
<1>8. UNCHANGED <<apUnacked, apProcessed, escalation, queue, overtaken, apEvent, request>>
  BY <1>1, <1>6, <1>7 DEF Approval!Publish, Approval!Sent, Approval!stores, Approval!history, Approval!locals
<1>9. ApproverTurns(a, "dequeue") /\ ReviewTypeOK'
  <2>1. "dequeue" \in {"idle"} \cup Approval!ApproverPcs /\ Approval!Goto(a, "dequeue")
    BY <1>1 DEF Approval!Publish, Approval!ApproverPcs
  <2> QED BY <1>8, <2>1, ApproverTurned DEF ReviewInv, ReviewType, ReviewTypeOK
<1> QED BY <1>1, <1>2, <1>3, <1>4, <1>5, <1>6, <1>8, <1>9 DEF m, Answered

\* The verdict is then the status of the escalation, and nobody is about to change it.
LEMMA PublishKeeps ==
  ASSUME IntakeInv, ReviewInv, OnceSoFar, NEW a \in Approvers, ApprovalPublish(a)
  PROVE  ReviewInv'
<1>c. PICK i, d, m :
        /\ i = request[a].invoice /\ d = request[a].review
        /\ m = Msg("approval-resolved", i, d.version, request[a].verdict)
  OBVIOUS
<1>d. /\ d \in Asked /\ d.invoice = i /\ i \in Invoices /\ d.version \in Versions
      /\ d.version \in Nat
      /\ request[a].verdict \in Verdicts
      /\ sent' = sent \cup {m} /\ m \in Message /\ m.topic = "approval-resolved"
      /\ m.invoice = i /\ m.version = d.version /\ m.outcome = request[a].verdict
      /\ apPc[a] = "publish"
      /\ UNCHANGED <<apUnacked, apProcessed, escalation, queue, overtaken, apEvent, request>>
      /\ ApproverTurns(a, "dequeue") /\ ReviewTypeOK'
  BY <1>c, PublishSays, MsgParts DEF Versions
<1>s. /\ escalation[i] # None /\ escalation[i].status = request[a].verdict
      /\ Reviewed(i) = d /\ escalation[i].by = a
  BY <1>c, <1>d, FoundTyped
<1>i. TypeInv
  BY DEF IntakeInv
<1>1. Asked' = Asked
  BY <1>d DEF Asked
<1>2. /\ ReviewType' /\ HandledOnce'
      /\ \A f : Unopened(f)' <=> Unopened(f)
      /\ \A h \in Handlers : apPc'[h] = apPc[h]
      /\ \A b \in Approvers \ {a} : apPc'[b] = apPc[b]
      /\ apPc'[a] = "dequeue"
  <2>1. apPc'[a] = "dequeue"
    BY <1>d DEF ApproverTurns, Turns
  <2>2. ReviewApprover(a)'
    BY <1>d, <2>1 DEF ReviewInv, ReviewType, ReviewApprover
  <2> QED BY <1>d, <1>1, <2>2, ApproversApart
<1>3. \A b \in Approvers : ~Settling(b, i)'
  <2> SUFFICES ASSUME NEW b \in Approvers, Settling(b, i)' PROVE FALSE
    OBVIOUS
  <2>1. b # a /\ Settling(b, i)
    BY <1>d, <1>2 DEF Settling
  <2> QED BY <1>s, <2>1, FoundTyped DEF Settling
<1>4. UnopenedInv'
  <2>1. ASSUME NEW f \in Decisions, Unopened(f) PROVE f.invoice # i
    <3>1. Settling(a, i)
      BY <1>c, <1>d DEF Settling
    <3> QED BY <2>1, <3>1, UnopenedIsCurrent
  <2>2. ASSUME NEW f \in Decisions, Unopened(f)
        PROVE  ~Answered({"approval-resolved"}, f.invoice, f.version)'
    BY <1>d, <2>1, <2>2 DEF ReviewInv, UnopenedInv, Answered
  <2>3. ASSUME NEW h \in Handlers, apPc'[h] \in {"inspect", "reopen"}
        PROVE  escalation'[apEvent'[h].invoice] # None
    BY <1>d, <1>2, <2>3 DEF ReviewInv, UnopenedInv
  <2> QED BY <1>d, <1>2, <2>2, <2>3 DEF ReviewInv, UnopenedInv, Reviewed, Approval!HasStatus
<1>5. TellingInv'
  <2>1. ASSUME NEW b \in Approvers PROVE Found(b)'
    <3>1. apPc'[b] \in {"publish", "revert"} => apPc[b] \in {"publish", "revert"}
      BY <1>2
    <3> QED BY <1>d, <3>1 DEF ReviewInv, TellingInv, Found
  <2>2. ASSUME NEW r \in sent', r.topic = "approval-resolved" PROVE Told(r)'
    <3>1. CASE r = m
      BY <1>d, <1>s, <1>3, <3>1 DEF Told, Reviewed
    <3>2. CASE r # m
      <4>1. \A b \in Approvers : Settling(b, r.invoice)' => Settling(b, r.invoice)
        BY <1>d, <1>2 DEF Settling
      <4> QED BY <1>d, <2>2, <3>2, <4>1 DEF ReviewInv, TellingInv, Told, Reviewed
    <3> QED BY <3>1, <3>2
  <2>3. ASSUME NEW j \in Invoices PROVE Telling(j)'
    <3>1. CASE j = i
      <4>1. Msg("approval-resolved", j, Reviewed(j).version, escalation[j].status) \in sent'
        BY <1>c, <1>d, <1>s, <3>1
      <4> QED BY <1>d, <4>1 DEF Telling, Reviewed
    <3>2. CASE j # i
      <4>1. \A b \in Approvers : Settling(b, j) => Settling(b, j)'
        BY <1>c, <1>d, <1>2, <3>2 DEF Settling
      <4> QED BY <1>d, <4>1 DEF ReviewInv, TellingInv, Telling, Reviewed
    <3> QED BY <3>1, <3>2
  <2> QED BY <2>1, <2>2, <2>3 DEF TellingInv
<1>6. OpenedInv'
  BY <1>d, <1>1, <1>2 DEF ReviewInv, OpenedInv, Reviewed
<1>7. QueueInv'
  <2>1. ASSUME NEW b \in Approvers, apPc'[b] = "dequeue"
        PROVE  apPc[b] = "dequeue" \/ b = a
    BY <1>2, <2>1
  <2>2. escalation[i].status # "pending"
    BY <1>d, <1>s DEF Verdicts
  <2>3. \A b \in Approvers : apPc[b] = "requeue" => apPc'[b] = "requeue"
    BY <1>d, <1>2
  <2>4. \A j \in Invoices : Queued(j)'
    BY <1>c, <1>d, <1>2, <2>1, <2>2, <2>3 DEF ReviewInv, QueueInv, Queued
  <2> QED BY <1>c, <1>d, <1>s, <2>1, <2>4 DEF ReviewInv, QueueInv
<1> QED BY <1>2, <1>4, <1>5, <1>6, <1>7 DEF ReviewInv

\* The invariant of the approval service is kept by every step of the story ...
LEMMA ReviewStep ==
  ASSUME IntakeInv, ReviewInv, PlainStep,
         \A h \in Handlers : paPc[h] # "idle" => call[h].event \in GoAhead
  PROVE  ReviewInv'
<1>1. ReviewRests \/ ReviewActs \/ \E a \in Approvers : ApprovalPublish(a)
  BY ReviewKinds DEF IntakeInv
<1>2. ASSUME ReviewActs PROVE ReviewInv'
  <2>1. ASSUME NEW e \in apUnacked, Approval!Filter(e) PROVE ReviewInv'
    BY <1>2, <2>1, FilterKeeps DEF ReviewActs
  <2>2. ASSUME NEW h \in Handlers,
               (\E e \in apUnacked : Approval!Deliver(h, e)) \/ Approval!Subscriber(h)
        PROVE  ReviewInv'
    <3>1. (Opens(h) \/ Walks(h)) /\ ReviewTypeOK'
      BY <2>2, SubscriberDoes DEF ReviewInv
    <3> QED BY <1>2, <3>1, OpenKeeps, WalkKeeps DEF ReviewActs
  <2>3. ASSUME NEW a \in Approvers,
               \/ Approval!Resolve(a) \/ Approval!Dequeue(a) \/ Approval!Revert(a)
               \/ Approval!Requeue(a) \/ Approval!PublishFails(a)
               \/ \E i \in queue, verdict \in Verdicts : Approval!Post(a, i, verdict)
        PROVE  ReviewInv'
    <3>1. apPc[a] = "revert" => escalation[request[a].invoice] # None
      BY FoundTyped
    <3>2. (Settles(a) \/ Reverts(a) \/ Attends(a)) /\ ReviewTypeOK'
      BY <2>3, <3>1, EndpointDoes DEF ReviewInv
    <3> QED BY <1>2, <3>2, SettleKeeps, RevertKeeps, AttendKeeps DEF ReviewActs
  <2> QED BY <1>2, <2>1, <2>2, <2>3 DEF ReviewActs
<1> QED BY <1>1, <1>2, RestKeeps, PublishKeeps DEF PlainStep

\* ... and holds at first.
LEMMA ReviewInit ==
  ASSUME FlowInit
  PROVE  ReviewInv
<1>1. /\ sent = {} /\ apUnacked = {} /\ apProcessed = {} /\ queue = {}
      /\ escalation = [i \in Invoices |-> None]
      /\ overtaken = [i \in Invoices |-> {}]
      /\ apPc = [w \in Handlers \cup Approvers |-> "idle"]
      /\ apEvent = [h \in Handlers |-> None]
      /\ request = [a \in Approvers |-> None]
  BY ReviewWorkers DEF FlowInit, Init, Approval!Fresh
<1>2. /\ \A i \in Invoices : escalation[i] = None
      /\ \A h \in Handlers : apPc[h] = "idle" /\ apEvent[h] = None
      /\ \A a \in Approvers : apPc[a] = "idle"
  BY <1>1
<1>3. ReviewType
  <2>1. ReviewTypeOK
    BY <1>1 DEF ReviewTypeOK
  <2> QED BY <1>1, <1>2, <2>1 DEF ReviewType, ReviewHandler, ReviewApprover
<1>4. Asked = {} /\ \A e : ~Unopened(e)
  BY <1>1 DEF Asked, Unopened
<1> QED BY <1>1, <1>2, <1>3, <1>4
    DEF ReviewInv, HandledOnce, UnopenedInv, TellingInv, Found, Telling, OpenedInv, QueueInv, Queued

--------------------------------------------------------------------------------
(* The payment service in the story.                                         *)

\* The state of the saga of an invoice.
Standing(i) == IF saga[i] = None THEN "none" ELSE saga[i].state

\* How the payment of an invoice went was published.
Reported(i) == \E m \in sent : m.topic \in Payments /\ m.invoice = i

\* An amount that the invoice asked for in a submission that was let through.
AskedFor(i, amount) == \E m \in GoAhead : m.invoice = i /\ amount = Amount[m.version]

\* No call of the payment service raised.
NoRaise == ~Payment!Suffered({"call"})

SagaTypeOK ==
  /\ paUnacked \subseteq Triggers
  /\ saga \in [Invoices -> Payment!SagaRecord \cup {None}]
  /\ provider \in [Invoices -> Payment!Payment \cup {None}]
  /\ paPc \in [Handlers -> Payment!Pcs]
  /\ call \in [Handlers -> Payment!Call \cup {None}]
  /\ paFaults \in [Payment!AllFaultKinds -> Nat]

\* A handler works on an event that lets an invoice through, for an amount that was asked
\* for; nothing is declined here.
SagaHandler(h) ==
  paPc[h] # "idle" =>
    /\ call[h] \in Payment!Call
    /\ call[h].event \in GoAhead /\ call[h].event \in paUnacked
    /\ AskedFor(call[h].event.invoice, call[h].amount)
    /\ paPc[h] \notin {"release", "mark_compensated", "publish_compensated"}

\* Deliveries of an invoice do not overlap.
Alone ==
  \A g, h \in Handlers :
    (/\ paPc[g] # "idle" /\ paPc[h] # "idle"
     /\ call[g].event.invoice = call[h].event.invoice) => g = h

SagaType ==
  /\ SagaTypeOK
  /\ paUnacked \subseteq sent
  /\ \A h \in Handlers : SagaHandler(h)
  /\ Alone

\* Where a handler is says how the saga of its invoice stands, and what was said of it.
Step(h) ==
  LET i == call[h].event.invoice IN
  /\ paPc[h] = "mark_refused" => Standing(i) \in {"none", "started"}
  /\ paPc[h] = "mark_started" => Standing(i) = "none"
  /\ paPc[h] \in {"reserve", "mark_rejected", "mark_reserved"} => Standing(i) = "started"
  /\ paPc[h] \in {"execute", "mark_paid"} => Standing(i) = "reserved"
  /\ paPc[h] = "publish_failed" =>
       Standing(i) \in {"compensated", "rejected_insufficient_budget"} /\ ~Reported(i)
  /\ paPc[h] = "publish_completed" => Standing(i) = "paid" /\ ~Reported(i)

\* A saga is for an amount that was asked for, and what was published is how it stands.
Ledger(i) ==
  /\ saga[i] # None => AskedFor(i, saga[i].amount)
  /\ provider[i] # None => AskedFor(i, provider[i].amount)
  /\ Standing(i) \in {"none", "started", "reserved"} => ~Reported(i)
  /\ \A m \in sent : m.invoice = i /\ m.topic = "payment-completed" => Standing(i) = "paid"
  /\ \A m \in sent : m.invoice = i /\ m.topic = "payment-failed" =>
       Standing(i) \in {"compensated", "rejected_insufficient_budget"}

\* As long as no call raised, what lets an invoice through is not taken up yet, at work or
\* reported.
Begun(e) ==
  \/ e \in paUnacked /\ \E h \in Handlers : paPc[h] # "idle" /\ call[h].event = e
  \/ e \in paUnacked /\ saga[e.invoice] = None /\ e \notin paProcessed
  \/ e \notin paUnacked /\ Reported(e.invoice)

Smooth(h) ==
  LET e == call[h].event IN
  /\ paPc[h] \notin {"ack", "forget"}
  /\ paPc[h] = "first_time" => e \notin paProcessed
  /\ paPc[h] \in {"first_time", "load"} => saga[e.invoice] = None
  /\ paPc[h] = "published" => Reported(e.invoice)

SmoothInv ==
  /\ paProcessed \subseteq sent
  /\ \A h \in Handlers : Smooth(h)
  /\ \A e \in GoAhead : Begun(e)

SagaInv ==
  /\ SagaType
  /\ \A h \in Handlers : Step(h)
  /\ \A i \in Invoices : Ledger(i)
  /\ NoRaise => SmoothInv

\* The service rests: events are published elsewhere, what lets an invoice through for the
\* first time.
SagaRests ==
  /\ UNCHANGED paymentOwn
  /\ \E N \in SUBSET Message :
       /\ sent' = sent \cup N
       /\ paUnacked' = paUnacked \cup (N \cap Triggers)
       /\ \A m \in N : m.topic \notin Payments /\ (m.topic \in Answers => m \notin sent)

\* How a step of the story looks from the payment service.
LEMMA SagaKinds ==
  ASSUME IntakeInv, ReviewInv, PlainStep
  PROVE  SagaRests \/ SagaActs \/ \E h \in Handlers : PaymentPublish(h)
<1>1. ASSUME NEW m \in Message, Announce(m), UNCHANGED paymentOwn, m \notin sent,
             m.topic \in Answers
      PROVE  SagaRests
  <2>1. /\ {m} \in SUBSET Message /\ sent' = sent \cup {m}
        /\ paUnacked' = paUnacked \cup ({m} \cap Triggers)
    BY <1>1 DEF Announce, Broadcast
  <2>2. m.topic \notin Payments
    BY <1>1 DEF Payments, Answers
  <2> QED BY <1>1, <2>1, <2>2 DEF SagaRests
<1>2. ASSUME UNCHANGED paymentVars, NEW N \in SUBSET {m \in Message : m.topic = "invoice-submitted"},
             sent' = sent \cup N
      PROVE  SagaRests
  <2>1. N \cap Triggers = {} /\ N \in SUBSET Message
    BY DEF Triggers
  <2>2. paUnacked' = paUnacked \cup (N \cap Triggers) /\ UNCHANGED paymentOwn
    BY <1>2, <2>1 DEF paymentVars
  <2>3. \A m \in N : m.topic \notin Payments /\ m.topic \notin Answers
    BY DEF Payments, Answers
  <2> QED BY <1>2, <2>1, <2>2, <2>3 DEF SagaRests
<1>3. CASE IntakeMoves
  BY <1>2, <1>3 DEF IntakeMoves
<1>4. CASE DecisionStep(FALSE)
  <2>1. PICK m \in Decisions : /\ Announce(m) /\ UNCHANGED paymentOwn
                               /\ ~Answered({"decision-made"}, m.invoice, m.version)
    BY <1>4, DecisionSays DEF IntakeInv
  <2>2. m \in Message /\ m.topic \in Answers /\ m \notin sent
    BY <2>1 DEF Answered, Decisions, Answers
  <2> QED BY <1>1, <2>1, <2>2
<1>5. CASE ReviewActs /\ UNCHANGED paymentVars
  <2>1. {} \in SUBSET {m \in Message : m.topic = "invoice-submitted"} /\ sent' = sent \cup {}
    BY <1>5 DEF ReviewActs, vars, bus
  <2> QED BY <1>2, <1>5, <2>1
<1>6. ASSUME NEW a \in Approvers, ApprovalPublish(a) PROVE SagaRests
  <2> DEFINE i == request[a].invoice
             d == request[a].review
             m == Msg("approval-resolved", i, d.version, request[a].verdict)
  <2>1. /\ ~Answered({"approval-resolved"}, i, d.version)
        /\ m \in Message /\ m.topic = "approval-resolved"
    BY <1>6, PublishSays DEF PlainStep
  <2>2. m.invoice = i /\ m.version = d.version
    BY MsgParts
  <2>3. Announce(m) /\ UNCHANGED paymentOwn
    BY <1>6, ResolutionSays DEF ApprovalPublish, PlainStep
  <2>4. m \notin sent /\ m.topic \in Answers
    BY <2>1, <2>2 DEF Answered, Answers
  <2> HIDE DEF m
  <2> QED BY <1>1, <2>1, <2>3, <2>4
<1>7. TypeInv
  BY DEF IntakeInv
<1> QED BY <1>3, <1>4, <1>5, <1>6, <1>7, StoryKinds

\* What an event says to the payment service.
LEMMA RequestSays ==
  ASSUME NEW m \in Triggers
  PROVE  /\ Requests[m].invoice = m.invoice /\ m.invoice \in Invoices
         /\ Requests[m].go <=> m.outcome \in {"auto_approve", "approved"}
         /\ Requests[m].amount = Amount[m.version] /\ Requests[m].dept = "dept"
         /\ Amount[m.version] \in Int /\ Amount[m.version] > 0
         /\ m.topic \in Answers /\ m \in Message
<1>1. m.invoice \in Invoices /\ m.version \in Versions /\ m.topic \in Answers /\ m \in Message
  BY DEF Triggers, Message, Answers
<1>2. Amount[m.version] \in Int /\ Amount[m.version] > 0
  BY <1>1, FlowAssumption
<1> QED BY <1>1, <1>2 DEF Requests

\* What lets an invoice through is such an event.
LEMMA GoAheadTyped ==
  ASSUME TypeInv, NEW m \in GoAhead
  PROVE  /\ m \in Triggers /\ m \in sent /\ m.invoice \in Invoices /\ m.version \in Versions
         /\ m.version \in Nat /\ m.topic \in Answers /\ m.outcome \in {"auto_approve", "approved"}
BY DEF TypeInv, TypeOK, GoAhead, Triggers, Message, Answers, Versions

\* Of one invoice, one event at most lets it through: what was said of an earlier
\* submission sent it back.
LEMMA OneTrigger ==
  ASSUME IntakeInv, NEW m \in GoAhead, NEW n \in GoAhead, m.invoice = n.invoice
  PROVE  m = n
<1>1. ASSUME NEW e \in GoAhead
      PROVE  e.version = record[e.invoice].version
  <2>1. /\ e \in sent /\ e.version \in Nat /\ e.topic \in Answers /\ e.invoice \in Invoices
        /\ e.outcome \in {"auto_approve", "approved"}
    BY GoAheadTyped DEF IntakeInv
  <2>2. /\ e.version <= record[e.invoice].version /\ record[e.invoice].version \in Nat
        /\ e.version < record[e.invoice].version => Closed(e.invoice, e.version)
    BY <2>1 DEF IntakeInv, TaleInv, RecordInv, SentKnown, TypeInv, TypeOK, InvoiceRecord, Versions
  <2>3. ASSUME Closed(e.invoice, e.version) PROVE FALSE
    <3>1. PICK d \in sent : d = Msg("decision-made", e.invoice, e.version, "human_review")
      BY <2>3 DEF Closed, Escalated, Happened
    <3>2. PICK r \in sent : r = Msg("approval-resolved", e.invoice, e.version, "needs_info")
      BY <2>3 DEF Closed, Happened
    <3>3. /\ d.topic = "decision-made" /\ d.outcome = "human_review" /\ Fellow(e, d)
          /\ r.topic = "approval-resolved" /\ r.outcome = "needs_info" /\ Fellow(e, r)
      BY <3>1, <3>2, MsgParts DEF Fellow
    <3> QED BY <2>1, <3>3 DEF IntakeInv, TaleInv, BusInv, Answers
  <2> QED BY <2>1, <2>2, <2>3
<1>2. /\ m \in sent /\ m.topic \in Answers /\ n \in sent /\ n.topic \in Answers
      /\ m.version = n.version
      /\ m.outcome \in {"auto_approve", "approved"} /\ n.outcome \in {"auto_approve", "approved"}
  BY <1>1, GoAheadTyped DEF IntakeInv
<1>3. ASSUME NEW e \in GoAhead, NEW f \in GoAhead, Fellow(e, f),
             e.topic = "approval-resolved", f.topic = "decision-made"
      PROVE  FALSE
  <2>1. e \in sent /\ f \in sent /\ f.outcome \in {"auto_approve", "approved"}
    BY GoAheadTyped DEF IntakeInv
  <2>2. PICK d \in sent : d.topic = "decision-made" /\ d.outcome = "human_review" /\ Fellow(e, d)
    BY <1>3, <2>1 DEF IntakeInv, CauseInv
  <2>3. d = f
    BY <1>3, <2>1, <2>2 DEF IntakeInv, TaleInv, BusInv, Answers, Fellow
  <2> QED BY <2>1, <2>2, <2>3
<1>4. m.topic = n.topic
  BY <1>2, <1>3 DEF Fellow, Answers
<1> QED BY <1>2, <1>4 DEF IntakeInv, TaleInv, BusInv, Fellow

\* Only one handler of the payment service moves.
Alters(h) ==
  \A g \in Handlers \ {h} : paPc'[g] = paPc[g] /\ call'[g] = call[g]

\* A handler takes up an event, of an invoice that no other works on.
Takes(h, e) ==
  /\ paPc[h] = "idle" /\ paPc'[h] = "first_time" /\ Alters(h)
  /\ e \in paUnacked /\ e.outcome \in {"auto_approve", "approved"}
  /\ \A g \in Handlers : paPc[g] # "idle" => call[g].event.invoice # e.invoice
  /\ call'[h] = [event |-> e, dept |-> "dept", amount |-> Amount[e.version]]
  /\ UNCHANGED <<paUnacked, paProcessed, saga, provider, paFaults>>

\* The states from which a state marker is written, and where it leads.
Marks(h, from, state, next) ==
  LET i == call[h].event.invoice IN
  /\ paPc[h] = from /\ paPc'[h] = next
  /\ saga'[i] # None /\ saga'[i].state = state
  /\ saga'[i].amount = IF saga[i] = None THEN call[h].amount ELSE saga[i].amount
  /\ \A j \in Invoices \ {i} : saga'[j] = saga[j]

\* It writes a state marker,
Records(h) ==
  /\ \E m \in Payment!Marker : Marks(h, m.at, m.writes, m.next)
  /\ Alters(h) /\ call'[h] = call[h]
  /\ UNCHANGED <<paUnacked, paProcessed, provider, paFaults>>

\* has the provider pay,
Pays(h) ==
  LET i == call[h].event.invoice IN
  /\ paPc[h] = "execute" /\ paPc'[h] = "mark_paid"
  /\ provider[i] = None => provider'[i] # None /\ provider'[i].amount = call[h].amount
  /\ provider[i] # None => provider'[i] = provider[i]
  /\ \A j \in Invoices \ {i} : provider'[j] = provider[j]
  /\ Alters(h) /\ call'[h] = call[h]
  /\ UNCHANGED <<paUnacked, paProcessed, saga, paFaults>>

\* or goes on with neither.
GoesOn(h) ==
  LET e == call[h].event
      i == e.invoice
  IN /\ UNCHANGED <<saga, provider>> /\ Alters(h)
     /\ \/ /\ paPc[h] = "first_time"
           /\ paPc'[h] = IF e \in paProcessed THEN "ack" ELSE "load"
           /\ call'[h] = call[h] /\ paProcessed' = paProcessed \cup {e}
           /\ UNCHANGED <<paUnacked, paFaults>>
        \/ /\ paPc[h] = "load"
           /\ IF Payment!IsTerminal(saga[i]) THEN paPc'[h] = "ack" /\ call'[h] = call[h]
              ELSE /\ call'[h].event = e /\ call'[h] \in Payment!Call
                   /\ call'[h].amount = IF saga[i] = None THEN call[h].amount ELSE saga[i].amount
                   /\ paPc'[h] = Payment!AfterLoad(e, saga[i], call'[h].amount)
           /\ UNCHANGED <<paUnacked, paProcessed, paFaults>>
        \/ /\ paPc[h] = "reserve" /\ paPc'[h] \in {"mark_reserved", "mark_rejected"}
           /\ call'[h] = call[h] /\ UNCHANGED <<paUnacked, paProcessed, paFaults>>
        \/ /\ paPc[h] \in {"ack", "published"} /\ paPc'[h] = "idle"
           /\ paUnacked' = paUnacked \ {e} /\ UNCHANGED <<paProcessed, paFaults>>
        \/ /\ paPc[h] = "forget" /\ paPc'[h] = "idle"
           /\ paProcessed' = paProcessed \ {e} /\ UNCHANGED <<paUnacked, paFaults>>
        \/ /\ paPc[h] # "idle" /\ paPc'[h] = "forget" /\ ~NoRaise'
           /\ call'[h] = call[h] /\ UNCHANGED <<paUnacked, paProcessed>>

\* The faults that the payment service meets.
LEMMA SagaFaultKinds ==
  ASSUME NEW kind, kind # "call"
  PROVE  ~Payment!Fault(kind)
BY FlowAssumption DEF Payment!Fault

\* What a call on its way holds.
LEMMA CallTyped ==
  ASSUME TypeInv, SagaType, NEW h \in Handlers, paPc[h] # "idle"
  PROVE  LET e == call[h].event IN
         /\ call[h] \in Payment!Call /\ e \in GoAhead /\ e \in Triggers /\ e.invoice \in Invoices
         /\ call[h].amount \in Int /\ call[h].amount > 0 /\ call[h].dept = "dept"
         /\ Payment!InvoiceOf(h) = e.invoice
         /\ e \in paUnacked
<1> DEFINE e == call[h].event
<1>1. call[h] \in Payment!Call /\ e \in GoAhead /\ e \in paUnacked
      /\ AskedFor(e.invoice, call[h].amount)
  BY DEF SagaType, SagaHandler
<1>2. e \in Triggers /\ e.invoice \in Invoices
  BY <1>1, GoAheadTyped
<1>3. call[h].dept = "dept"
  BY <1>1 DEF Payment!Call
<1>4. call[h].amount \in Int /\ call[h].amount > 0
  <2>1. PICK m \in GoAhead : call[h].amount = Amount[m.version]
    BY <1>1 DEF AskedFor
  <2> QED BY <2>1, GoAheadTyped, RequestSays
<1>5. Payment!InvoiceOf(h) = e.invoice
  BY <1>2, RequestSays DEF Payment!InvoiceOf
<1> QED BY <1>1, <1>2, <1>3, <1>4, <1>5

\* A handler of the payment service that goes on alters no other.
LEMMA SagaTurned ==
  ASSUME SagaTypeOK, NEW h \in Handlers, NEW next \in Payment!Pcs, Payment!Goto(h, next),
         \/ UNCHANGED call
         \/ \E c \in Payment!Call \cup {None} : call' = [call EXCEPT ![h] = c]
  PROVE  /\ paPc'[h] = next /\ Alters(h)
         /\ paPc' \in [Handlers -> Payment!Pcs]
         /\ call' \in [Handlers -> Payment!Call \cup {None}]
BY DEF SagaTypeOK, Payment!Goto, Alters

\* What each step of the payment service does, but for the publish and the filter.
LEMMA DeliverTakes ==
  ASSUME TypeInv, SagaType, NEW h \in Handlers, NEW e \in paUnacked, Payment!Deliver(h, e)
  PROVE  Takes(h, e) /\ SagaTypeOK'
<1> DEFINE c == [event |-> e, dept |-> "dept", amount |-> Amount[e.version]]
<1>1. e \in Triggers /\ SagaTypeOK
  BY DEF SagaType, SagaTypeOK
<1>2. /\ paPc[h] = "idle" /\ Requests[e].go /\ ~Payment!Busy(e) /\ UNCHANGED paFaults
      /\ Payment!Goto(h, "first_time") /\ call' = [call EXCEPT ![h] = c]
      /\ UNCHANGED <<paUnacked, paProcessed, saga, provider>>
  BY <1>1, SagaFaultKinds, RequestSays DEF Payment!Deliver, Payment!stores
<1>3. c \in Payment!Call
  BY <1>1, RequestSays DEF Payment!Call
<1>4. "first_time" \in Payment!Pcs
  BY DEF Payment!Pcs
<1>5. ASSUME NEW g \in Handlers, paPc[g] # "idle" PROVE call[g].event.invoice # e.invoice
  BY <1>1, <1>2, <1>5, CallTyped, RequestSays DEF Payment!Busy
<1> HIDE DEF c
<1>6. /\ paPc'[h] = "first_time" /\ Alters(h)
      /\ paPc' \in [Handlers -> Payment!Pcs]
      /\ call' \in [Handlers -> Payment!Call \cup {None}]
  BY <1>1, <1>2, <1>3, <1>4, SagaTurned
<1>7. call'[h] = c
  BY <1>1, <1>2 DEF SagaTypeOK
<1> QED BY <1>1, <1>2, <1>5, <1>6, <1>7, RequestSays DEF Takes, SagaTypeOK, c

\* A marker writes the next state of the saga of its invoice.
LEMMA MarkRecords ==
  ASSUME TypeInv, SagaType, NEW h \in Handlers, Payment!Mark(h)
  PROVE  Records(h) /\ SagaTypeOK'
<1> DEFINE i == call[h].event.invoice
<1>1. PICK m \in Payment!Marker :
        /\ paPc[h] = m.at
        /\ Payment!Transition(h, m.writes)
        /\ Payment!Goto(h, m.next)
        /\ UNCHANGED <<paUnacked, paProcessed, provider, call, paFaults>>
  BY DEF Payment!Mark
<1>2. /\ m.writes \in {"started", "reserved"} \cup Payment!TerminalStates
      /\ m.next \in Payment!Pcs /\ m.at # "idle"
  BY DEF Payment!Marker, Payment!TerminalStates, Payment!Pcs, Payment!BodyPcs
<1>3. /\ SagaTypeOK /\ i \in Invoices /\ Payment!InvoiceOf(h) = i
      /\ call[h].dept = "dept" /\ call[h].amount \in Int
  BY <1>1, <1>2, CallTyped DEF SagaType
<1> DEFINE r == IF saga[i] = None
                THEN [state |-> m.writes, dept |-> call[h].dept, amount |-> call[h].amount]
                ELSE [saga[i] EXCEPT !.state = m.writes]
<1>4. saga' = [saga EXCEPT ![i] = r]
  BY <1>1, <1>3 DEF Payment!Transition
<1>5. /\ r \in Payment!SagaRecord /\ r.state = m.writes
      /\ r.amount = IF saga[i] = None THEN call[h].amount ELSE saga[i].amount
  BY <1>2, <1>3 DEF SagaTypeOK, Payment!SagaRecord
<1> HIDE DEF r
<1>6. /\ saga'[i] = r /\ r # None
      /\ \A j \in Invoices \ {i} : saga'[j] = saga[j]
      /\ saga' \in [Invoices -> Payment!SagaRecord \cup {None}]
  BY <1>3, <1>4, <1>5, SentinelAssumption DEF SagaTypeOK
<1>7. /\ paPc'[h] = m.next /\ Alters(h)
      /\ paPc' \in [Handlers -> Payment!Pcs]
      /\ call' \in [Handlers -> Payment!Call \cup {None}]
  BY <1>1, <1>2, <1>3, SagaTurned
<1>8. Marks(h, m.at, m.writes, m.next)
  BY <1>1, <1>5, <1>6, <1>7 DEF Marks
<1> QED BY <1>1, <1>3, <1>6, <1>7, <1>8 DEF Records, SagaTypeOK

\* A payment moves the amount of the request that asked for it.
LEMMA ExecutePays ==
  ASSUME TypeInv, SagaType, NEW h \in Handlers, Payment!Execute(h)
  PROVE  Pays(h) /\ SagaTypeOK'
<1> DEFINE i == call[h].event.invoice
           r == [dept |-> call[h].dept, amount |-> call[h].amount]
<1>1. /\ paPc[h] = "execute"
      /\ UNCHANGED <<paUnacked, paProcessed, saga, call, paFaults>>
  BY DEF Payment!Execute
<1>2. /\ SagaTypeOK /\ i \in Invoices /\ Payment!InvoiceOf(h) = i
      /\ call[h].dept = "dept" /\ call[h].amount \in Int
  BY <1>1, CallTyped DEF SagaType
<1>3. r \in Payment!Payment /\ r.amount = call[h].amount
  BY <1>2 DEF Payment!Payment
<1>4. /\ Payment!Goto(h, "mark_paid")
      /\ \/ provider[i] # None /\ UNCHANGED provider
         \/ provider[i] = None /\ provider' = [provider EXCEPT ![i] = r]
  BY <1>2 DEF Payment!Execute
<1> HIDE DEF r
<1>5. /\ provider[i] = None => provider'[i] # None /\ provider'[i].amount = call[h].amount
      /\ provider[i] # None => provider'[i] = provider[i]
      /\ \A j \in Invoices \ {i} : provider'[j] = provider[j]
      /\ provider' \in [Invoices -> Payment!Payment \cup {None}]
  BY <1>2, <1>3, <1>4, SentinelAssumption DEF SagaTypeOK
<1>6. /\ paPc'[h] = "mark_paid" /\ Alters(h)
      /\ paPc' \in [Handlers -> Payment!Pcs]
      /\ call' \in [Handlers -> Payment!Call \cup {None}]
  <2>1. "mark_paid" \in Payment!Pcs
    BY DEF Payment!Pcs, Payment!BodyPcs
  <2> QED BY <1>1, <1>2, <1>4, <2>1, SagaTurned
<1> QED BY <1>1, <1>2, <1>5, <1>6 DEF Pays, SagaTypeOK

\* The other calls of a payment touch neither a saga but at its start nor the provider.
LEMMA OthersGoOn ==
  ASSUME TypeInv, SagaType, NEW h \in Handlers,
         \/ Payment!FirstTime(h) \/ Payment!Load(h) \/ Payment!Reserve(h) \/ Payment!Release(h)
         \/ Payment!Ack(h) \/ Payment!Forget(h) \/ Payment!Raise(h)
  PROVE  GoesOn(h) /\ SagaTypeOK'
<1> DEFINE e == call[h].event
           i == e.invoice
<1>t. SagaTypeOK
  BY DEF SagaType
<1>c. paPc[h] # "idle" => /\ i \in Invoices /\ Payment!InvoiceOf(h) = i
                          /\ call[h] \in Payment!Call /\ call[h].amount > 0
  BY CallTyped
<1>p. {"idle", "ack", "load", "mark_refused", "mark_started", "execute", "reserve", "mark_reserved",
       "mark_rejected", "forget"} \subseteq Payment!Pcs
  BY DEF Payment!Pcs, Payment!BodyPcs
<1>s. ASSUME NEW next \in Payment!Pcs, Payment!Goto(h, next),
             \/ UNCHANGED call
             \/ \E c \in Payment!Call \cup {None} : call' = [call EXCEPT ![h] = c],
             UNCHANGED <<saga, provider>>, paUnacked' \subseteq paUnacked,
             paFaults' \in [Payment!AllFaultKinds -> Nat]
      PROVE  /\ paPc'[h] = next /\ Alters(h) /\ SagaTypeOK'
  BY <1>s, <1>t, SagaTurned DEF SagaTypeOK
<1>1. CASE Payment!FirstTime(h)
  <2>1. /\ paPc[h] = "first_time" /\ Payment!Goto(h, IF e \in paProcessed THEN "ack" ELSE "load")
        /\ paProcessed' = paProcessed \cup {e}
        /\ UNCHANGED <<paUnacked, saga, provider, call, paFaults>>
    BY <1>1 DEF Payment!FirstTime
  <2>2. /\ paPc'[h] = IF e \in paProcessed THEN "ack" ELSE "load"
        /\ Alters(h) /\ SagaTypeOK'
    BY <1>s, <1>t, <1>p, <2>1 DEF SagaTypeOK
  <2> QED BY <2>1, <2>2 DEF GoesOn
<1>2. CASE Payment!Load(h)
  <2>1. paPc[h] = "load" /\ UNCHANGED <<paUnacked, paProcessed, saga, provider, paFaults>>
    BY <1>2 DEF Payment!Load, Payment!stores
  <2>2. CASE Payment!IsTerminal(saga[i])
    <3>1. Payment!Goto(h, "ack") /\ UNCHANGED call
      BY <1>2, <1>c, <2>1, <2>2 DEF Payment!Load
    <3>2. paPc'[h] = "ack" /\ Alters(h) /\ SagaTypeOK'
      BY <1>s, <1>t, <1>p, <2>1, <3>1 DEF SagaTypeOK
    <3> QED BY <2>1, <2>2, <3>1, <3>2 DEF GoesOn
  <2>3. CASE ~Payment!IsTerminal(saga[i])
    <3> DEFINE c == Payment!Adopted(call[h], saga[i])
    <3>1. Payment!Goto(h, Payment!AfterLoad(c.event, saga[i], c.amount))
          /\ call' = [call EXCEPT ![h] = c]
      BY <1>2, <1>c, <2>1, <2>3 DEF Payment!Load
    <3>2. /\ c \in Payment!Call /\ c.event = e
          /\ c.amount = IF saga[i] = None THEN call[h].amount ELSE saga[i].amount
      BY <1>t, <1>c, <2>1 DEF Payment!Adopted, Payment!Call, SagaTypeOK, Payment!SagaRecord
    <3> HIDE DEF c
    <3>3. Payment!AfterLoad(c.event, saga[i], c.amount) \in Payment!Pcs
      BY <1>p DEF Payment!AfterLoad
    <3>4. /\ paPc'[h] = Payment!AfterLoad(e, saga[i], c.amount) /\ Alters(h) /\ SagaTypeOK'
      BY <1>s, <1>t, <2>1, <3>1, <3>2, <3>3 DEF SagaTypeOK
    <3>5. call'[h] = c
      BY <1>t, <3>1 DEF SagaTypeOK
    <3> QED BY <2>1, <2>3, <3>2, <3>4, <3>5 DEF GoesOn
  <2> QED BY <2>2, <2>3
<1>3. CASE Payment!Reserve(h)
  <2>1. /\ paPc[h] = "reserve"
        /\ Payment!Goto(h, "mark_reserved") \/ Payment!Goto(h, "mark_rejected")
        /\ UNCHANGED <<paUnacked, paProcessed, saga, provider, call, paFaults>>
    BY <1>3 DEF Payment!Reserve
  <2>2. paPc'[h] \in {"mark_reserved", "mark_rejected"} /\ Alters(h) /\ SagaTypeOK'
    BY <1>s, <1>t, <1>p, <2>1 DEF SagaTypeOK
  <2> QED BY <2>1, <2>2 DEF GoesOn
<1>4. CASE Payment!Release(h)
  BY <1>4 DEF SagaType, SagaHandler, Payment!Release
<1>5. CASE Payment!Ack(h)
  <2>1. /\ paPc[h] \in {"ack", "published"} /\ Payment!Goto(h, "idle")
        /\ call' = [call EXCEPT ![h] = None] /\ paUnacked' = paUnacked \ {e}
        /\ UNCHANGED <<paProcessed, saga, provider, paFaults>>
    BY <1>5 DEF Payment!Ack, Payment!Return, Payment!Goto, Payment!stores
  <2>2. paPc'[h] = "idle" /\ Alters(h) /\ SagaTypeOK'
    BY <1>s, <1>t, <1>p, <2>1 DEF SagaTypeOK
  <2> QED BY <2>1, <2>2 DEF GoesOn
<1>6. CASE Payment!Forget(h)
  <2>1. /\ paPc[h] = "forget" /\ Payment!Goto(h, "idle")
        /\ call' = [call EXCEPT ![h] = None] /\ paProcessed' = paProcessed \ {e}
        /\ UNCHANGED <<paUnacked, saga, provider, paFaults>>
    BY <1>6 DEF Payment!Forget, Payment!Return, Payment!Goto
  <2>2. paPc'[h] = "idle" /\ Alters(h) /\ SagaTypeOK'
    BY <1>s, <1>t, <1>p, <2>1 DEF SagaTypeOK
  <2> QED BY <2>1, <2>2 DEF GoesOn
<1>7. CASE Payment!Raise(h)
  <2>1. /\ paPc[h] # "idle" /\ Payment!Goto(h, "forget")
        /\ paFaults' = [paFaults EXCEPT !["call"] = @ + 1]
        /\ UNCHANGED <<paUnacked, paProcessed, saga, provider, call>>
    BY <1>7 DEF Payment!Raise, Payment!Fault, Payment!BodyPcs, Payment!stores
  <2>2. /\ paFaults' \in [Payment!AllFaultKinds -> Nat] /\ paFaults'["call"] > 0
    BY <1>t, <2>1 DEF SagaTypeOK, Payment!AllFaultKinds
  <2>3. paPc'[h] = "forget" /\ Alters(h) /\ SagaTypeOK'
    BY <1>s, <1>t, <1>p, <2>1, <2>2 DEF SagaTypeOK
  <2>4. ~NoRaise'
    BY <2>2 DEF NoRaise, Payment!Suffered
  <2> QED BY <2>1, <2>3, <2>4 DEF GoesOn
<1> QED BY <1>1, <1>2, <1>3, <1>4, <1>5, <1>6, <1>7

\* What lets an invoice through does so once.
Once == \A m, n \in GoAhead : m.invoice = n.invoice => m = n

\* A handler moves for one invoice: what is known of the others stays so.
LEMMA SagaApart ==
  ASSUME TypeInv, SagaInv, SagaTypeOK', NEW h \in Handlers, NEW e \in GoAhead, Alters(h), Once,
         GoAhead' = GoAhead, sent \subseteq sent',
         \A m \in sent' \ sent : m.invoice = e.invoice,
         paUnacked' \subseteq paUnacked, paUnacked \ {e} \subseteq paUnacked',
         paProcessed' \ {e} = paProcessed \ {e},
         \A j \in Invoices \ {e.invoice} : saga'[j] = saga[j] /\ provider'[j] = provider[j],
         \A g \in Handlers \ {h} : paPc[g] # "idle" => call[g].event.invoice # e.invoice,
         SagaHandler(h)', Step(h)', Ledger(e.invoice)',
         NoRaise' => NoRaise /\ Smooth(h)' /\ Begun(e)',
         paPc[h] # "idle" => call[h].event = e, paPc'[h] # "idle" => call'[h].event = e
  PROVE  SagaInv'
<1> DEFINE i == e.invoice
<1>a. \A j, x : AskedFor(j, x)' <=> AskedFor(j, x)
  BY DEF AskedFor
<1>r. \A j : j # i => (Reported(j)' <=> Reported(j))
  BY DEF Reported
<1>e. e \in sent /\ i \in Invoices
  BY GoAheadTyped
<1>1. ASSUME NEW g \in Handlers \ {h} PROVE SagaHandler(g)' /\ Step(g)'
  <2>1. /\ paPc'[g] = paPc[g] /\ call'[g] = call[g]
        /\ SagaHandler(g) /\ Step(g) /\ (paPc[g] # "idle" => call[g].event.invoice # i)
    BY DEF Alters, SagaInv, SagaType
  <2>2. CASE paPc[g] = "idle"
    BY <2>1, <2>2 DEF SagaHandler, Step
  <2>3. CASE paPc[g] # "idle"
    <3> DEFINE j == call[g].event.invoice
    <3>1. j \in Invoices \ {i} /\ call[g].event # e /\ call[g].event \in paUnacked
      BY <2>1, <2>3, CallTyped DEF SagaInv
    <3>2. Standing(j)' = Standing(j) /\ (Reported(j)' <=> Reported(j))
      BY <1>r, <2>1, <3>1 DEF Standing, Reported
    <3>3. SagaHandler(g)'
      BY <1>a, <2>1, <3>1 DEF SagaHandler
    <3>4. Step(g)'
      BY <2>1, <3>2 DEF Step
    <3> QED BY <3>3, <3>4
  <2> QED BY <2>2, <2>3
<1>2. Alone'
  <2> SUFFICES ASSUME NEW f \in Handlers, NEW g \in Handlers, paPc'[f] # "idle", paPc'[g] # "idle",
                      call'[f].event.invoice = call'[g].event.invoice, f # g
               PROVE  FALSE
    BY DEF Alone
  <2>1. CASE f # h /\ g # h
    BY <2>1 DEF Alters, SagaInv, SagaType, Alone
  <2>2. CASE f = h \/ g = h
    BY <2>2 DEF Alters
  <2> QED BY <2>1, <2>2
<1>3. SagaType'
  <2>1. \A g \in Handlers : SagaHandler(g)'
    BY <1>1
  <2> QED BY <1>2, <2>1 DEF SagaType, SagaInv
<1>4. ASSUME NEW j \in Invoices PROVE Ledger(j)'
  <2>1. CASE j # i
    <3>1. Standing(j)' = Standing(j) /\ Ledger(j)
      BY <2>1 DEF Standing, SagaInv
    <3>2. saga'[j] = saga[j] /\ provider'[j] = provider[j] /\ (Reported(j)' <=> Reported(j))
      BY <1>r, <2>1
    <3> QED BY <1>a, <2>1, <3>1, <3>2 DEF Ledger
  <2> QED BY <2>1
<1>5. ASSUME NoRaise' PROVE SmoothInv'
  <2>1. SmoothInv /\ Smooth(h)' /\ Begun(e)'
    BY <1>5 DEF SagaInv
  <2>2. paProcessed' \subseteq sent'
    BY <1>e, <2>1 DEF SmoothInv
  <2>3. ASSUME NEW g \in Handlers \ {h} PROVE Smooth(g)'
    <3>1. paPc'[g] = paPc[g] /\ call'[g] = call[g] /\ Smooth(g)
      BY <2>1 DEF Alters, SmoothInv
    <3>2. CASE paPc[g] = "idle"
      BY <3>1, <3>2 DEF Smooth
    <3>3. CASE paPc[g] # "idle"
      <4> DEFINE f == call[g].event
      <4>1. f.invoice \in Invoices \ {i} /\ f # e
        BY <3>3, CallTyped DEF SagaInv
      <4>2. saga'[f.invoice] = saga[f.invoice] /\ (f \in paProcessed' <=> f \in paProcessed)
        BY <4>1
      <4>3. Reported(f.invoice) => Reported(f.invoice)'
        BY <3>1, <4>1 DEF Reported
      <4> QED BY <3>1, <4>2, <4>3 DEF Smooth
    <3> QED BY <3>2, <3>3
  <2>4. ASSUME NEW f \in GoAhead PROVE Begun(f)'
    <3>1. CASE f = e
      BY <2>1, <3>1
    <3>2. CASE f # e
      <4>1. f.invoice \in Invoices \ {i} /\ Begun(f)
        BY <2>1, <3>2, GoAheadTyped DEF Once, SmoothInv
      <4>2. /\ saga'[f.invoice] = saga[f.invoice] /\ (f \in paProcessed' <=> f \in paProcessed)
            /\ f \in paUnacked' <=> f \in paUnacked
        BY <3>2, <4>1
      <4>3. Reported(f.invoice) => Reported(f.invoice)'
        BY <1>r, <4>1
      <4>4. ASSUME NEW g \in Handlers, paPc[g] # "idle", call[g].event = f
            PROVE  paPc'[g] # "idle" /\ call'[g].event = f
        BY <3>2, <4>4 DEF Alters
      <4> QED BY <4>1, <4>2, <4>3, <4>4 DEF Begun
    <3> QED BY <3>1, <3>2
  <2> QED BY <2>1, <2>2, <2>3, <2>4 DEF SmoothInv
<1> QED BY <1>1, <1>3, <1>4, <1>5 DEF SagaInv

\* A handler takes up an event.
LEMMA TakesKeeps ==
  ASSUME TypeInv, SagaInv, SagaTypeOK', UNCHANGED vars, Once,
         NEW h \in Handlers, NEW e, Takes(h, e)
  PROVE  SagaInv'
<1> DEFINE c == [event |-> e, dept |-> "dept", amount |-> Amount[e.version]]
<1>1. e \in Triggers /\ e \in GoAhead
  <2>1. e \in Triggers /\ e \in sent
    BY DEF SagaInv, SagaType, SagaTypeOK, Takes
  <2> QED BY <2>1, RequestSays DEF Takes, GoAhead
<1>2. /\ c \in Payment!Call /\ c.event = e /\ c.amount = Amount[e.version]
  BY <1>1, RequestSays DEF Payment!Call
<1>3. /\ paPc[h] = "idle" /\ paPc'[h] = "first_time" /\ Alters(h) /\ e \in paUnacked
      /\ \A g \in Handlers : paPc[g] # "idle" => call[g].event.invoice # e.invoice
      /\ call'[h] = c /\ UNCHANGED <<paUnacked, paProcessed, saga, provider, paFaults, sent>>
  BY DEF Takes, vars, bus
<1> HIDE DEF c
<1>4. GoAhead' = GoAhead
  BY <1>3 DEF GoAhead
<1>5. AskedFor(e.invoice, c.amount)
  BY <1>1, <1>2 DEF AskedFor
<1>6. SagaHandler(h)'
  BY <1>1, <1>2, <1>3, <1>4, <1>5 DEF SagaHandler, AskedFor
<1>7. Step(h)'
  BY <1>3 DEF Step
<1>8. Ledger(e.invoice)'
  <2>1. Ledger(e.invoice)
    BY <1>1, GoAheadTyped DEF SagaInv
  <2> QED BY <1>3, <1>4, <2>1 DEF Ledger, Standing, AskedFor, Reported
<1>9. ASSUME NoRaise' PROVE NoRaise /\ Smooth(h)' /\ Begun(e)'
  <2>1. NoRaise
    BY <1>3, <1>9 DEF NoRaise, Payment!Suffered
  <2>2. saga[e.invoice] = None /\ e \notin paProcessed
    BY <1>1, <1>3, <2>1 DEF SagaInv, SmoothInv, Begun
  <2>3. Smooth(h)'
    BY <1>2, <1>3, <2>2 DEF Smooth
  <2>4. Begun(e)'
    BY <1>2, <1>3 DEF Begun
  <2> QED BY <2>1, <2>3, <2>4
<1> QED BY <1>1, <1>2, <1>3, <1>4, <1>6, <1>7, <1>8, <1>9, SagaApart

\* What the moves of a handler on its way share.
LEMMA OnItsWay ==
  ASSUME TypeInv, SagaInv, UNCHANGED sent, NEW h \in Handlers, paPc[h] # "idle",
         NEW e, e = call[h].event
  PROVE  /\ e \in GoAhead /\ GoAhead' = GoAhead /\ e.invoice \in Invoices /\ e \in paUnacked
         /\ call[h] \in Payment!Call /\ AskedFor(e.invoice, call[h].amount)
         /\ call[h].amount > 0
         /\ SagaHandler(h) /\ Step(h) /\ Ledger(e.invoice)
         /\ \A g \in Handlers \ {h} : paPc[g] # "idle" => call[g].event.invoice # e.invoice
         /\ \A x : AskedFor(e.invoice, x)' <=> AskedFor(e.invoice, x)
         /\ Reported(e.invoice)' <=> Reported(e.invoice)
         /\ NoRaise => Smooth(h) /\ Begun(e)
<1>1. /\ call[h] \in Payment!Call /\ e \in GoAhead /\ e.invoice \in Invoices
      /\ call[h].amount > 0 /\ e \in paUnacked
  BY CallTyped DEF SagaInv
<1>2. GoAhead' = GoAhead
  BY DEF GoAhead
<1>3. /\ SagaHandler(h) /\ Step(h) /\ Ledger(e.invoice) /\ AskedFor(e.invoice, call[h].amount)
  BY <1>1 DEF SagaInv, SagaType, SagaHandler
<1>4. \A g \in Handlers \ {h} : paPc[g] # "idle" => call[g].event.invoice # e.invoice
  BY DEF SagaInv, SagaType, Alone
<1>5. \A x : AskedFor(e.invoice, x)' <=> AskedFor(e.invoice, x)
  BY <1>2 DEF AskedFor
<1>6. Reported(e.invoice)' <=> Reported(e.invoice)
  BY DEF Reported
<1>7. NoRaise => Smooth(h) /\ Begun(e)
  BY <1>1 DEF SagaInv, SmoothInv
<1> QED BY <1>1, <1>2, <1>3, <1>4, <1>5, <1>6, <1>7

\* It writes a state marker: nothing was published of its invoice.
LEMMA RecordsKeeps ==
  ASSUME TypeInv, SagaInv, SagaTypeOK', UNCHANGED vars, Once,
         NEW h \in Handlers, Records(h)
  PROVE  SagaInv'
<1>c. PICK e : e = call[h].event
  OBVIOUS
<1>1. PICK m \in Payment!Marker : Marks(h, m.at, m.writes, m.next)
  BY DEF Records
<1>2. /\ paPc[h] = m.at /\ paPc'[h] = m.next /\ m.at # "idle"
      /\ saga'[e.invoice] # None /\ saga'[e.invoice].state = m.writes
      /\ saga'[e.invoice].amount =
           IF saga[e.invoice] = None THEN call[h].amount ELSE saga[e.invoice].amount
      /\ \A j \in Invoices \ {e.invoice} : saga'[j] = saga[j]
      /\ Alters(h) /\ call'[h] = call[h]
      /\ UNCHANGED <<paUnacked, paProcessed, provider, paFaults, sent>>
  BY <1>c, <1>1 DEF Marks, Records, Payment!Marker, vars, bus
<1>w. /\ e \in GoAhead /\ GoAhead' = GoAhead /\ e.invoice \in Invoices /\ e \in paUnacked
      /\ AskedFor(e.invoice, call[h].amount)
      /\ SagaHandler(h) /\ Step(h) /\ Ledger(e.invoice)
      /\ \A g \in Handlers \ {h} : paPc[g] # "idle" => call[g].event.invoice # e.invoice
      /\ \A x : AskedFor(e.invoice, x)' <=> AskedFor(e.invoice, x)
      /\ Reported(e.invoice)' <=> Reported(e.invoice)
      /\ NoRaise => Smooth(h) /\ Begun(e)
  BY <1>c, <1>2, OnItsWay
<1>3. m.at # "mark_compensated"
  BY <1>2, <1>w DEF SagaHandler
<1>4. ~Reported(e.invoice) /\ Standing(e.invoice)' = m.writes
  <2>1. Standing(e.invoice) \in {"none", "started", "reserved"}
    BY <1>c, <1>2, <1>3, <1>w DEF Payment!Marker, Step
  <2> QED BY <1>2, <1>w, <2>1 DEF Ledger, Standing
<1>5. SagaHandler(h)'
  <2>1. paPc'[h] \notin {"release", "mark_compensated", "publish_compensated"}
    BY <1>2, <1>3 DEF Payment!Marker
  <2>2. call[h] \in Payment!Call /\ call'[h].event = e /\ e \in GoAhead' /\ e \in paUnacked'
    BY <1>c, <1>2, <1>w DEF SagaHandler
  <2> QED BY <1>2, <1>w, <2>1, <2>2 DEF SagaHandler, AskedFor
<1>6. Step(h)'
  <2>1. call'[h].event.invoice = e.invoice
    BY <1>c, <1>2
  <2>2. ~Reported(e.invoice)'
    BY <1>4, <1>w
  <2> QED BY <1>2, <1>3, <1>4, <2>1, <2>2 DEF Payment!Marker, Step, Standing, Reported
<1>7. Ledger(e.invoice)'
  <2>1. AskedFor(e.invoice, saga'[e.invoice].amount)
    BY <1>2, <1>w DEF Ledger
  <2>2. provider'[e.invoice] # None => AskedFor(e.invoice, provider'[e.invoice].amount)
    BY <1>2, <1>w DEF Ledger
  <2>3. ~Reported(e.invoice)'
    BY <1>4, <1>w
  <2> QED BY <1>w, <2>1, <2>2, <2>3 DEF Ledger, Reported, Payments
<1>8. ASSUME NoRaise' PROVE NoRaise /\ Smooth(h)' /\ Begun(e)'
  <2>1. NoRaise
    BY <1>2, <1>8 DEF NoRaise, Payment!Suffered
  <2>2. Smooth(h)'
    BY <1>2, <1>3 DEF Smooth, Payment!Marker
  <2>3. Begun(e)'
    BY <1>c, <1>2, <1>w DEF Begun, Payment!Marker
  <2> QED BY <2>1, <2>2, <2>3
<1> QED BY <1>c, <1>2, <1>w, <1>5, <1>6, <1>7, <1>8, SagaApart

\* The provider pays what was asked for.
LEMMA PaysKeeps ==
  ASSUME TypeInv, SagaInv, SagaTypeOK', UNCHANGED vars, Once,
         NEW h \in Handlers, Pays(h)
  PROVE  SagaInv'
<1>c. PICK e : e = call[h].event
  OBVIOUS
<1>2. /\ paPc[h] = "execute" /\ paPc'[h] = "mark_paid"
      /\ provider[e.invoice] = None => /\ provider'[e.invoice] # None
                                       /\ provider'[e.invoice].amount = call[h].amount
      /\ provider[e.invoice] # None => provider'[e.invoice] = provider[e.invoice]
      /\ \A j \in Invoices \ {e.invoice} : provider'[j] = provider[j]
      /\ Alters(h) /\ call'[h] = call[h]
      /\ UNCHANGED <<paUnacked, paProcessed, saga, paFaults, sent>>
  BY <1>c DEF Pays, vars, bus
<1>w. /\ e \in GoAhead /\ GoAhead' = GoAhead /\ e.invoice \in Invoices /\ e \in paUnacked
      /\ AskedFor(e.invoice, call[h].amount)
      /\ SagaHandler(h) /\ Step(h) /\ Ledger(e.invoice)
      /\ \A g \in Handlers \ {h} : paPc[g] # "idle" => call[g].event.invoice # e.invoice
      /\ \A x : AskedFor(e.invoice, x)' <=> AskedFor(e.invoice, x)
      /\ Reported(e.invoice)' <=> Reported(e.invoice)
      /\ NoRaise => Smooth(h) /\ Begun(e)
  BY <1>c, <1>2, OnItsWay
<1>3. Standing(e.invoice)' = Standing(e.invoice)
  BY <1>2 DEF Standing
<1>5. SagaHandler(h)'
  BY <1>c, <1>2, <1>w DEF SagaHandler, AskedFor
<1>6. Step(h)'
  BY <1>c, <1>2, <1>3, <1>w DEF Step, Standing
<1>7. Ledger(e.invoice)'
  <2>1. provider'[e.invoice] # None => AskedFor(e.invoice, provider'[e.invoice].amount)
    BY <1>2, <1>w DEF Ledger
  <2> QED BY <1>2, <1>3, <1>w, <2>1 DEF Ledger
<1>8. ASSUME NoRaise' PROVE NoRaise /\ Smooth(h)' /\ Begun(e)'
  <2>1. NoRaise
    BY <1>2, <1>8 DEF NoRaise, Payment!Suffered
  <2>2. Smooth(h)'
    BY <1>2 DEF Smooth
  <2>3. Begun(e)'
    BY <1>c, <1>2, <1>w DEF Begun
  <2> QED BY <2>1, <2>2, <2>3
<1> QED BY <1>c, <1>2, <1>w, <1>5, <1>6, <1>7, <1>8, SagaApart

\* It goes on without a change of the saga or of the payment.
LEMMA GoesOnKeeps ==
  ASSUME TypeInv, SagaInv, SagaTypeOK', UNCHANGED vars, Once,
         NEW h \in Handlers, GoesOn(h)
  PROVE  SagaInv'
<1>c. PICK e : e = call[h].event
  OBVIOUS
<1>2. /\ UNCHANGED <<saga, provider, sent>> /\ Alters(h) /\ paPc[h] # "idle"
      /\ paUnacked' \subseteq paUnacked /\ paUnacked \ {e} \subseteq paUnacked'
      /\ paProcessed' \ {e} = paProcessed \ {e}
  BY <1>c DEF GoesOn, vars, bus
<1>w. /\ e \in GoAhead /\ GoAhead' = GoAhead /\ e.invoice \in Invoices /\ e \in paUnacked
      /\ call[h] \in Payment!Call /\ AskedFor(e.invoice, call[h].amount) /\ call[h].amount > 0
      /\ SagaHandler(h) /\ Step(h) /\ Ledger(e.invoice)
      /\ \A g \in Handlers \ {h} : paPc[g] # "idle" => call[g].event.invoice # e.invoice
      /\ \A x : AskedFor(e.invoice, x)' <=> AskedFor(e.invoice, x)
      /\ Reported(e.invoice)' <=> Reported(e.invoice)
      /\ NoRaise => Smooth(h) /\ Begun(e)
  BY <1>c, <1>2, OnItsWay
<1>3. Standing(e.invoice)' = Standing(e.invoice)
  BY <1>2 DEF Standing
<1>7. Ledger(e.invoice)'
  BY <1>2, <1>3, <1>w DEF Ledger
<1>s. ASSUME paPc'[h] # "idle" => call'[h].event = e,
             SagaHandler(h)', Step(h)', NoRaise' => NoRaise /\ Smooth(h)' /\ Begun(e)'
      PROVE  SagaInv'
  BY <1>c, <1>s, <1>2, <1>w, <1>7, SagaApart
<1>k. ASSUME UNCHANGED paFaults, NoRaise' PROVE NoRaise /\ Smooth(h) /\ Begun(e) /\ paPc[h] \notin {"ack", "forget"}
  <2>1. NoRaise
    BY <1>k DEF NoRaise, Payment!Suffered
  <2> QED BY <1>w, <2>1 DEF Smooth
<1>h. ASSUME call'[h] \in Payment!Call, call'[h].event = e, e \in paUnacked',
             AskedFor(e.invoice, call'[h].amount),
             paPc'[h] \notin {"release", "mark_compensated", "publish_compensated"}
      PROVE  SagaHandler(h)'
  BY <1>h, <1>w DEF SagaHandler
<1>4. CASE /\ paPc[h] = "first_time"
           /\ paPc'[h] = IF e \in paProcessed THEN "ack" ELSE "load"
           /\ call'[h] = call[h] /\ paProcessed' = paProcessed \cup {e}
           /\ UNCHANGED <<paUnacked, paFaults>>
  <2>1. SagaHandler(h)' /\ Step(h)'
    BY <1>c, <1>h, <1>w, <1>4 DEF Step
  <2>2. ASSUME NoRaise' PROVE NoRaise /\ Smooth(h)' /\ Begun(e)'
    BY <1>c, <1>k, <1>2, <1>w, <1>4, <2>2 DEF Smooth, Begun
  <2> QED BY <1>c, <1>s, <1>4, <2>1, <2>2
<1>5. CASE /\ paPc[h] = "load"
           /\ IF Payment!IsTerminal(saga[e.invoice]) THEN paPc'[h] = "ack" /\ call'[h] = call[h]
              ELSE /\ call'[h].event = e /\ call'[h] \in Payment!Call
                   /\ call'[h].amount = IF saga[e.invoice] = None THEN call[h].amount
                                        ELSE saga[e.invoice].amount
                   /\ paPc'[h] = Payment!AfterLoad(e, saga[e.invoice], call'[h].amount)
           /\ UNCHANGED <<paUnacked, paProcessed, paFaults>>
  <2>2. CASE Payment!IsTerminal(saga[e.invoice])
    <3>1. SagaHandler(h)' /\ Step(h)'
      BY <1>c, <1>h, <1>w, <1>5, <2>2 DEF Step
    <3>2. ~NoRaise'
      BY <1>c, <1>k, <1>5, <2>2 DEF Smooth, Payment!IsTerminal
    <3> QED BY <1>c, <1>s, <1>5, <2>2, <3>1, <3>2
  <2>3. CASE ~Payment!IsTerminal(saga[e.invoice])
    <3>1. AskedFor(e.invoice, call'[h].amount)
      BY <1>w, <1>5, <2>3 DEF Ledger
    <3>2. call'[h].amount > 0 /\ call'[h].amount \in Int
      BY <3>1, GoAheadTyped, RequestSays DEF AskedFor
    <3>3. /\ paPc'[h] \in {"mark_refused", "mark_started", "execute", "reserve"}
          /\ paPc'[h] = "mark_started" => saga[e.invoice] = None
          /\ paPc'[h] = "execute" => saga[e.invoice] # None /\ saga[e.invoice].state = "reserved"
          /\ paPc'[h] = "reserve" => saga[e.invoice] # None /\ saga[e.invoice].state # "reserved"
          /\ paPc'[h] = "mark_refused" => saga[e.invoice] = None \/ saga[e.invoice].state # "reserved"
      BY <1>5, <2>3, <3>2 DEF Payment!AfterLoad
    <3>4. saga[e.invoice] # None => saga[e.invoice].state \in {"started", "reserved"}
      BY <1>w, <2>3 DEF SagaInv, SagaType, SagaTypeOK, Payment!SagaRecord, Payment!IsTerminal
    <3>5. SagaHandler(h)'
      BY <1>h, <1>w, <1>5, <2>3, <3>1, <3>3
    <3>6. Step(h)'
      BY <1>2, <1>5, <2>3, <3>3, <3>4 DEF Step, Standing
    <3>7. ASSUME NoRaise' PROVE NoRaise /\ Smooth(h)' /\ Begun(e)'
      BY <1>k, <1>w, <1>5, <2>3, <3>3, <3>7 DEF Smooth, Begun
    <3> QED BY <1>s, <1>5, <2>3, <3>5, <3>6, <3>7
  <2> QED BY <2>2, <2>3
<1>6. CASE /\ paPc[h] = "reserve" /\ paPc'[h] \in {"mark_reserved", "mark_rejected"}
           /\ call'[h] = call[h] /\ UNCHANGED <<paUnacked, paProcessed, paFaults>>
  <2>1. SagaHandler(h)' /\ Step(h)'
    BY <1>c, <1>h, <1>2, <1>w, <1>6 DEF Step, Standing
  <2>2. ASSUME NoRaise' PROVE NoRaise /\ Smooth(h)' /\ Begun(e)'
    BY <1>c, <1>k, <1>w, <1>6, <2>2 DEF Smooth, Begun
  <2> QED BY <1>c, <1>s, <1>6, <2>1, <2>2
<1>8. CASE /\ paPc[h] \in {"ack", "published"} /\ paPc'[h] = "idle"
           /\ paUnacked' = paUnacked \ {e} /\ UNCHANGED <<paProcessed, paFaults>>
  <2>1. SagaHandler(h)' /\ Step(h)'
    BY <1>8 DEF SagaHandler, Step
  <2>2. ASSUME NoRaise' PROVE NoRaise /\ Smooth(h)' /\ Begun(e)'
    BY <1>c, <1>k, <1>w, <1>8, <2>2 DEF Smooth, Begun
  <2> QED BY <1>s, <1>8, <2>1, <2>2
<1>9. CASE /\ paPc[h] = "forget" /\ paPc'[h] = "idle"
           /\ paProcessed' = paProcessed \ {e} /\ UNCHANGED <<paUnacked, paFaults>>
  <2>1. SagaHandler(h)' /\ Step(h)'
    BY <1>9 DEF SagaHandler, Step
  <2> QED BY <1>k, <1>s, <1>9, <2>1
<1>10. CASE /\ paPc[h] # "idle" /\ paPc'[h] = "forget" /\ ~NoRaise'
            /\ call'[h] = call[h] /\ UNCHANGED <<paUnacked, paProcessed>>
  <2>1. SagaHandler(h)' /\ Step(h)'
    BY <1>c, <1>h, <1>w, <1>10 DEF Step
  <2> QED BY <1>c, <1>s, <1>10, <2>1
<1> QED BY <1>c, <1>4, <1>5, <1>6, <1>8, <1>9, <1>10 DEF GoesOn

\* It publishes how the payment went, which nobody did before.
LEMMA ReportIsFirst ==
  ASSUME TypeInv, SagaInv, NEW h \in Handlers, PaymentPublish(h)
  PROVE  /\ paPc[h] \in {"publish_failed", "publish_completed"}
         /\ call[h].event \in GoAhead /\ ~Reported(call[h].event.invoice)
<1>1. paPc[h] \in {"publish_failed", "publish_compensated", "publish_completed"}
  BY DEF PaymentPublish, Payment!Publish
<1>2. SagaHandler(h) /\ Step(h)
  BY DEF SagaInv, SagaType
<1> QED BY <1>1, <1>2 DEF SagaHandler, Step

\* A report of a payment keeps what the payments say.
LEMMA ReportKeeps ==
  ASSUME TypeInv, SagaInv, Once, NEW h \in Handlers, PaymentPublish(h)
  PROVE  SagaInv'
<1>c. PICK e : e = call[h].event
  OBVIOUS
<1>1. /\ paPc[h] \in {"publish_failed", "publish_completed"} /\ e \in GoAhead
      /\ ~Reported(e.invoice)
  BY <1>c, ReportIsFirst
<1>2. PICK m \in Message :
        /\ Announce(m) /\ sent' = sent \cup {m} /\ m.invoice = e.invoice /\ m.topic \in Payments
        /\ m.topic = "payment-completed" <=> paPc[h] = "publish_completed"
  BY <1>c, <1>1, ReportSays
<1>3. /\ Payment!Goto(h, "published")
      /\ UNCHANGED <<paUnacked, paProcessed, saga, provider, call, paFaults>>
  BY DEF PaymentPublish, Payment!Publish, Payment!stores
<1>4. /\ call[h] \in Payment!Call /\ e.invoice \in Invoices /\ e \in paUnacked
      /\ SagaHandler(h) /\ Step(h) /\ Ledger(e.invoice)
      /\ \A g \in Handlers \ {h} : paPc[g] # "idle" => call[g].event.invoice # e.invoice
  BY <1>c, <1>1, CallTyped DEF SagaInv, SagaType, Alone
<1>5. paPc'[h] = "published" /\ Alters(h) /\ SagaTypeOK'
  <2>1. "published" \in Payment!Pcs
    BY DEF Payment!Pcs, Payment!BodyPcs
  <2> QED BY <1>3, <2>1, SagaTurned DEF SagaInv, SagaType, SagaTypeOK
<1>6. GoAhead' = GoAhead
  BY <1>2 DEF GoAhead, Answers, Payments
<1>7. SagaHandler(h)' /\ Step(h)'
  BY <1>c, <1>1, <1>3, <1>4, <1>5, <1>6 DEF SagaHandler, Step, AskedFor
<1>8. Ledger(e.invoice)'
  <2>1. \A n \in sent' : n.invoice = e.invoice /\ n.topic \in Payments => n = m
    BY <1>1, <1>2 DEF Reported
  <2>2. IF m.topic = "payment-completed" THEN Standing(e.invoice) = "paid"
        ELSE Standing(e.invoice) \in {"compensated", "rejected_insufficient_budget"}
    BY <1>c, <1>1, <1>2, <1>4 DEF Step
  <2>3. Standing(e.invoice)' = Standing(e.invoice)
    BY <1>3 DEF Standing
  <2>4. \A x : AskedFor(e.invoice, x)' <=> AskedFor(e.invoice, x)
    BY <1>6 DEF AskedFor
  <2> QED BY <1>3, <1>4, <2>1, <2>2, <2>3, <2>4 DEF Ledger, Payments
<1>9. ASSUME NoRaise' PROVE NoRaise /\ Smooth(h)' /\ Begun(e)'
  <2>1. NoRaise
    BY <1>3, <1>9 DEF NoRaise, Payment!Suffered
  <2>2. Reported(e.invoice)'
    BY <1>2 DEF Reported
  <2>3. Smooth(h)'
    BY <1>c, <1>3, <1>5, <2>2 DEF Smooth
  <2>4. Begun(e)'
    BY <1>c, <1>3, <1>4, <1>5 DEF Begun
  <2> QED BY <2>1, <2>3, <2>4
<1> QED BY <1>c, <1>1, <1>2, <1>3, <1>4, <1>5, <1>6, <1>7, <1>8, <1>9, SagaApart

\* An event that lets nothing through is acknowledged.
LEMMA SagaFilterKeeps ==
  ASSUME TypeInv, SagaInv, UNCHANGED vars, NEW e \in paUnacked, Payment!Filter(e)
  PROVE  SagaInv'
<1>1. /\ UNCHANGED <<paProcessed, saga, provider, paPc, call, paFaults, sent>>
      /\ paUnacked' = paUnacked \ {e} /\ ~Requests[e].go
  BY DEF Payment!Filter, Payment!stores, vars, bus
<1>2. e \notin GoAhead
  BY <1>1, RequestSays DEF SagaInv, SagaType, SagaTypeOK, GoAhead
<1>3. GoAhead' = GoAhead /\ (NoRaise' <=> NoRaise)
  BY <1>1 DEF GoAhead, NoRaise, Payment!Suffered
<1>4. \A i, x : AskedFor(i, x)' <=> AskedFor(i, x)
  BY <1>3 DEF AskedFor
<1>5. \A i : Standing(i)' = Standing(i) /\ (Reported(i)' <=> Reported(i))
  BY <1>1 DEF Standing, Reported
<1>6. SagaType'
  <2>1. \A h \in Handlers : SagaHandler(h)'
    BY <1>1, <1>2, <1>3, <1>4 DEF SagaInv, SagaType, SagaHandler
  <2>2. SagaTypeOK' /\ Alone' /\ paUnacked' \subseteq sent'
    BY <1>1 DEF SagaInv, SagaType, SagaTypeOK, Alone
  <2> QED BY <2>1, <2>2 DEF SagaType
<1>7. \A h \in Handlers : Step(h)'
  BY <1>1, <1>5 DEF SagaInv, Step
<1>8. \A i \in Invoices : Ledger(i)'
  BY <1>1, <1>4, <1>5 DEF SagaInv, Ledger
<1>9. NoRaise' => SmoothInv'
  <2>1. ASSUME SmoothInv PROVE \A h \in Handlers : Smooth(h)'
    BY <1>1, <1>5, <2>1 DEF SmoothInv, Smooth
  <2>2. ASSUME SmoothInv PROVE \A f \in GoAhead' : Begun(f)'
    BY <1>1, <1>2, <1>3, <1>5, <2>2 DEF SmoothInv, Begun
  <2> QED BY <1>1, <1>3, <2>1, <2>2 DEF SagaInv, SmoothInv
<1> QED BY <1>6, <1>7, <1>8, <1>9 DEF SagaInv

\* What is published elsewhere leaves the payments as they are, and what lets an invoice
\* through for the first time finds no saga.
LEMMA SagaRestKeeps ==
  ASSUME TypeInv, SagaInv, Once', SagaRests
  PROVE  SagaInv'
<1>1. PICK N \in SUBSET Message :
        /\ sent' = sent \cup N
        /\ paUnacked' = paUnacked \cup (N \cap Triggers)
        /\ \A m \in N : m.topic \notin Payments /\ (m.topic \in Answers => m \notin sent)
  BY DEF SagaRests
<1>2. UNCHANGED <<paProcessed, saga, provider, paPc, call, paFaults>>
  BY DEF SagaRests, paymentOwn
<1>3. GoAhead \subseteq GoAhead' /\ (NoRaise' <=> NoRaise)
  BY <1>1, <1>2 DEF GoAhead, NoRaise, Payment!Suffered
<1>4. \A i, x : AskedFor(i, x) => AskedFor(i, x)'
  BY <1>3 DEF AskedFor
<1>5. \A i : Standing(i)' = Standing(i) /\ (Reported(i)' <=> Reported(i))
  BY <1>1, <1>2 DEF Standing, Reported
<1>6. SagaType'
  <2>1. \A h \in Handlers : SagaHandler(h)'
    BY <1>1, <1>2, <1>3, <1>4 DEF SagaInv, SagaType, SagaHandler
  <2>2. SagaTypeOK' /\ Alone' /\ paUnacked' \subseteq sent'
    BY <1>1, <1>2 DEF SagaInv, SagaType, SagaTypeOK, Alone
  <2> QED BY <2>1, <2>2 DEF SagaType
<1>7. \A h \in Handlers : Step(h)'
  BY <1>2, <1>5 DEF SagaInv, Step
<1>8. ASSUME NEW i \in Invoices PROVE Ledger(i)'
  <2>1. \A m \in sent' : m.topic \in Payments => m \in sent
    BY <1>1
  <2> QED BY <1>2, <1>4, <1>5, <2>1 DEF SagaInv, Ledger, Payments
<1>9. ASSUME SmoothInv, NEW e \in GoAhead' PROVE Begun(e)'
  <2>1. CASE e \in GoAhead
    <3>1. Begun(e) /\ e \in sent
      BY <1>9, <2>1 DEF SmoothInv, GoAhead
    <3>2. e \in paUnacked' <=> e \in paUnacked
      BY <1>1, <2>1, GoAheadTyped
    <3> QED BY <1>2, <1>5, <3>1, <3>2 DEF Begun
  <2>2. CASE e \notin GoAhead
    <3>1. e \in N /\ e.topic \in Answers /\ e \notin sent /\ e \in Message
      BY <1>1, <2>2 DEF GoAhead
    <3>2. e \in paUnacked' /\ e \notin paProcessed /\ e.invoice \in Invoices
      BY <1>1, <1>9, <3>1 DEF SmoothInv, Triggers, Answers, Message
    <3>3. saga[e.invoice] = None
      <4> SUFFICES ASSUME saga[e.invoice] # None PROVE FALSE
        OBVIOUS
      <4>1. PICK m \in GoAhead : m.invoice = e.invoice
        BY <3>2 DEF SagaInv, Ledger, AskedFor
      <4>2. m = e
        BY <1>3, <4>1 DEF Once
      <4> QED BY <2>2, <4>2
    <3> QED BY <1>2, <3>2, <3>3 DEF Begun
  <2> QED BY <2>1, <2>2
<1>10. NoRaise' => SmoothInv'
  <2>1. ASSUME SmoothInv PROVE \A h \in Handlers : Smooth(h)'
    BY <1>2, <1>5, <2>1 DEF SmoothInv, Smooth
  <2> QED BY <1>1, <1>2, <1>3, <1>9, <2>1 DEF SagaInv, SmoothInv
<1> QED BY <1>6, <1>7, <1>8, <1>10 DEF SagaInv

\* The invariant of the payment service is kept by every step of the story ...
LEMMA SagaStep ==
  ASSUME IntakeInv, ReviewInv, SagaInv, Once', PlainStep
  PROVE  SagaInv'
<1>1. Once /\ TypeInv
  BY OneTrigger DEF Once, IntakeInv
<1>2. ASSUME SagaActs PROVE SagaInv'
  <2>0. UNCHANGED vars
    BY <1>2 DEF SagaActs
  <2>1. ASSUME NEW e \in paUnacked, Payment!Filter(e) PROVE SagaInv'
    BY <1>1, <2>0, <2>1, SagaFilterKeeps
  <2>2. ASSUME NEW h \in Handlers, NEW e \in paUnacked, Payment!Deliver(h, e) PROVE SagaInv'
    BY <1>1, <2>0, <2>2, DeliverTakes, TakesKeeps DEF SagaInv
  <2>3. ASSUME NEW h \in Handlers, Payment!Mark(h) PROVE SagaInv'
    BY <1>1, <2>0, <2>3, MarkRecords, RecordsKeeps DEF SagaInv
  <2>4. ASSUME NEW h \in Handlers, Payment!Execute(h) PROVE SagaInv'
    BY <1>1, <2>0, <2>4, ExecutePays, PaysKeeps DEF SagaInv
  <2>5. ASSUME NEW h \in Handlers,
               \/ Payment!FirstTime(h) \/ Payment!Load(h) \/ Payment!Reserve(h)
               \/ Payment!Release(h) \/ Payment!Ack(h) \/ Payment!Forget(h) \/ Payment!Raise(h)
        PROVE  SagaInv'
    BY <1>1, <2>0, <2>5, OthersGoOn, GoesOnKeeps DEF SagaInv
  <2> QED BY <1>2, <2>1, <2>2, <2>3, <2>4, <2>5 DEF SagaActs
<1> QED BY <1>1, <1>2, SagaKinds, SagaRestKeeps, ReportKeeps

\* ... and holds at first.
LEMMA SagaInit ==
  ASSUME FlowInit
  PROVE  SagaInv
<1>1. /\ sent = {} /\ paUnacked = {} /\ paProcessed = {}
      /\ saga = [i \in Invoices |-> None] /\ provider = [i \in Invoices |-> None]
      /\ paPc = [h \in Handlers |-> "idle"] /\ call = [h \in Handlers |-> None]
      /\ paFaults = [kind \in Payment!AllFaultKinds |-> 0]
  BY DEF FlowInit, Init, Payment!Fresh
<1>2. SagaTypeOK
  BY <1>1 DEF SagaTypeOK, Payment!Pcs
<1>3. \A h \in Handlers : paPc[h] = "idle"
  BY <1>1
<1>4. \A i \in Invoices : saga[i] = None /\ provider[i] = None /\ ~Reported(i)
  BY <1>1 DEF Reported
<1>5. SagaType
  BY <1>1, <1>2, <1>3 DEF SagaType, SagaHandler, Alone
<1>6. \A h \in Handlers : Step(h) /\ Smooth(h)
  BY <1>3 DEF Step, Smooth
<1>7. \A i \in Invoices : Ledger(i)
  BY <1>1, <1>4 DEF Ledger
<1>8. SmoothInv
  BY <1>1, <1>6 DEF SmoothInv, GoAhead
<1> QED BY <1>5, <1>6, <1>7, <1>8 DEF SagaInv

--------------------------------------------------------------------------------
(* What intake takes up of the other services is what they do.               *)

\* Every such step of the story is a step of intake and of what surrounds it, or a stutter.
LEMMA StoryIsIntakes ==
  ASSUME IntakeInv, ReviewInv, SagaInv, PlainStep
  PROVE  [Next]_vars
<1>1. TypeInv
  BY DEF IntakeInv
<1>2. ASSUME NEW a \in Approvers, ApprovalPublish(a) PROVE Next
  <2> DEFINE d == request[a].review
  <2>1. /\ d \in Asked /\ d.invoice = request[a].invoice /\ request[a].verdict \in Verdicts
        /\ ~Answered({"approval-resolved"}, d.invoice, d.version)
        /\ Broadcast(Msg("approval-resolved", d.invoice, d.version, request[a].verdict))
    BY <1>2, PublishSays DEF PlainStep
  <2>2. UNCHANGED intakeOwn
    BY <1>2 DEF ApprovalPublish
  <2> HIDE DEF d
  <2>3. d \in sent /\ Review(d, FALSE)
    BY <2>1, <2>2 DEF Asked, Review, Publishes, intakeOwn
  <2> QED BY <2>2, <2>3 DEF Next, Downstream, intakeOwn
<1>3. ASSUME NEW h \in Handlers, PaymentPublish(h) PROVE Next
  <2>1. PICK e : e = call[h].event
    OBVIOUS
  <2>2. e \in GoAhead /\ ~Reported(e.invoice)
    BY <1>1, <1>3, <2>1, ReportIsFirst
  <2>3. PICK m \in Message :
          /\ Announce(m) /\ m.topic \in Payments
          /\ m = Msg(m.topic, e.invoice, e.version, None)
          /\ UNCHANGED intakeOwn
    BY <1>1, <1>3, <2>1, <2>2, ReportSays
  <2>4. \A v \in Versions : ~Answered({"payment-completed", "payment-failed"}, e.invoice, v)
    BY <2>2 DEF Answered, Reported, Payments
  <2>5. e \in sent /\ Pay(e, FALSE)
    BY <2>2, <2>3, <2>4 DEF Pay, Publishes, GoAhead, Announce, Payments, intakeOwn
  <2> QED BY <2>3, <2>5 DEF Next, Downstream, intakeOwn
<1>4. UNCHANGED vars => [Next]_vars
  OBVIOUS
<1> QED BY <1>1, <1>2, <1>3, <1>4, StoryKinds, DecisionSays
    DEF IntakeMoves, ReviewActs, SagaActs, Next

\* What intake's theorems rest on is kept.
LEMMA IntakeStays ==
  ASSUME IntakeInv, ResubmissionsDoNotOverlap, [Next]_vars, NoRepeats'
  PROVE  IntakeInv'
<1>1. TypeInv /\ TypeInv'
  BY TypeStep DEF IntakeInv
<1>2. StoryInv /\ BusInv /\ HandsInv /\ RecordInv /\ SentKnown /\ PutInv
      /\ CauseInv /\ MarkInv /\ FreshInv
  BY DEF IntakeInv, TaleInv, RecordInv
<1>3. StoryInv' /\ BusInv' /\ HandsInv'
  BY <1>1, <1>2, StoryStep, BusStep, HandsStep
<1>4. RecordInv'
  BY <1>1, <1>2, SentKnownStep, PutStep, TracedStep DEF RecordInv
<1>5. CauseInv' /\ MarkInv' /\ FreshInv'
  BY <1>1, <1>2, CauseStep, MarkStep, FreshStep
<1>6. ASSUME NoFaults' PROVE TurnInv' /\ PaceInv'
  <2>1. TurnInv /\ PaceInv
    BY <1>1, <1>6, FaultsStay DEF IntakeInv
  <2> QED BY <1>1, <1>2, <1>6, <2>1, TurnStep, PaceStep
<1> QED BY <1>1, <1>3, <1>4, <1>5, <1>6 DEF IntakeInv, TaleInv

\* The invariant of the story.
FlowInv == IntakeInv /\ ReviewInv /\ SagaInv

\* The invariant of the story holds at first.
LEMMA FlowBegins == FlowInit => FlowInv
<1> SUFFICES ASSUME FlowInit PROVE FlowInv
  OBVIOUS
<1>1. Init
  BY DEF FlowInit
<1>2. TypeInv
  BY <1>1, IntakeAssumption DEF Init, TypeInv, TypeOK, Holding, Workers
<1>3. TaleInv /\ CauseInv /\ MarkInv /\ FreshInv /\ TurnInv /\ PaceInv
  BY <1>1, StoryInit, NoFaultInit
  DEF Init, TaleInv, BusInv, HandsInv, RecordInv, SentKnown, PutInv, Traced, HasStatus, Workers,
      CauseInv, MarkInv, FreshInv, PaceInv
<1> QED BY <1>2, <1>3, ReviewInit, SagaInit DEF FlowInv, IntakeInv

\* It is kept until a service answers again, and each step is one that intake allows.
LEMMA FlowStep ==
  ASSUME CountedFaults, AnsweredOnce => FlowInv, ResubmissionsDoNotOverlap,
         [FlowNext]_flowVars, IntakeInv' => Once'
  PROVE  CountedFaults' /\ (AnsweredOnce' => PlainStep /\ FlowInv /\ FlowInv' /\ [Next]_vars)
<1>1. CountedFaults'
  BY CountedStep
<1>2. ASSUME AnsweredOnce' PROVE PlainStep /\ FlowInv /\ FlowInv' /\ [Next]_vars
  <2>1. PlainStep /\ NoRepeats'
    BY <1>2, AgainForGood
  <2>2. FlowInv
    BY <2>1 DEF PlainStep, OnceSoFar
  <2>3. [Next]_vars
    BY <2>1, <2>2, StoryIsIntakes DEF FlowInv
  <2>4. IntakeInv'
    BY <2>1, <2>2, <2>3, IntakeStays DEF FlowInv
  <2>5. \A h \in Handlers : paPc[h] # "idle" => call[h].event \in GoAhead
    BY <2>2 DEF FlowInv, SagaInv, SagaType, SagaHandler
  <2>6. ReviewInv'
    BY <2>1, <2>2, <2>5, ReviewStep DEF FlowInv
  <2>7. SagaInv'
    BY <2>1, <2>2, <2>4, SagaStep DEF FlowInv
  <2> QED BY <2>1, <2>2, <2>3, <2>4, <2>6, <2>7 DEF FlowInv
<1> QED BY <1>1, <1>2

\* It holds throughout, as long as no service has answered again.
LEMMA FlowIsKept ==
  FlowSpec /\ []ResubmissionsDoNotOverlap
    => /\ [](CountedFaults /\ (AnsweredOnce => FlowInv))
       /\ [][AnsweredOnce' => PlainStep /\ FlowInv /\ FlowInv' /\ [Next]_vars]_flowVars
<1>1. IntakeInv => Once
  BY OneTrigger DEF Once
<1>2. IntakeInv' => Once'
  BY <1>1, PTL
<1>3. /\ CountedFaults /\ (AnsweredOnce => FlowInv) /\ ResubmissionsDoNotOverlap
      /\ [FlowNext]_flowVars
      => CountedFaults' /\ (AnsweredOnce' => PlainStep /\ FlowInv /\ FlowInv' /\ [Next]_vars)
  BY <1>2, FlowStep
<1>4. FlowInit => CountedFaults
  BY DEF FlowInit, Init, Approval!Fresh, CountedFaults
<1> QED BY <1>3, <1>4, FlowBegins, PTL DEF FlowSpec

\* The events intake sees in the story are events its module lets it see, without those
\* that are said again: as long as the broker takes no answer whose publish raises
\* (AnsweredOnce, which is assumed of the decision service and of the faults of approval),
\* approval publishes one verdict on a decision, payment one outcome of an invoice and
\* nobody what was not asked for, if no two resubmissions of one invoice have both asked and
\* not yet written (payment saga.py:119-241, approval api.py:123-220, intake api.py:91-110).
THEOREM StoryImplementsIntake ==
  FlowSpec /\ []ResubmissionsDoNotOverlap /\ []AnsweredOnce => Spec
<1>1. FlowInit => Init
  BY DEF FlowInit
<1>2. UNCHANGED flowVars => UNCHANGED vars
  BY DEF flowVars
<1> QED BY <1>1, <1>2, FlowIsKept, PTL DEF FlowSpec, Spec

\* So in the story, too, a status follows the life of an invoice and goes back to events
\* about the submission that is shown, and the dashboard never counts what did not happen,
\* on the same two conditions (status.py:15-63, api.py:41-110).
THEOREM StoryShowsTrue ==
  FlowSpec /\ []ResubmissionsDoNotOverlap /\ []AnsweredOnce
    => FollowsLifecycle /\ []StatusIsEarned /\ []DashboardIsTrue
BY StoryImplementsIntake, IntakeImplementsLifecycle, StatusesAreEarned, DashboardStaysTrue, PTL

--------------------------------------------------------------------------------
(* What the services say of one invoice.                                     *)

\* What lets an invoice through is about the submission that is stored, and that is not
\* refused.
LEMMA GoAheadStands ==
  ASSUME IntakeInv, NEW m \in GoAhead
  PROVE  LET i == m.invoice IN
         /\ i \in Invoices /\ record[i] # None /\ m.version = record[i].version
         /\ record[i].status \notin {"rejected", "duplicate", "needs_info"}
<1> DEFINE i == m.invoice
<1>1. /\ m \in sent /\ i \in Invoices /\ m.version \in Nat /\ m.topic \in Answers
      /\ m.outcome \in {"auto_approve", "approved"}
  BY GoAheadTyped DEF IntakeInv
<1>2. /\ record[i] # None /\ m.version <= record[i].version /\ record[i].version \in Nat
      /\ m.version < record[i].version => Closed(i, m.version)
  BY <1>1 DEF IntakeInv, TaleInv, RecordInv, SentKnown, TypeInv, TypeOK, InvoiceRecord, Versions
<1>3. ~Closed(i, m.version)
  BY <1>1, ClosedIsOver DEF IntakeInv, TaleInv
<1> HIDE DEF i
<1>4. m.version = record[i].version
  BY <1>1, <1>2, <1>3
<1>5. Traced(i) /\ Earned(i)
  BY <1>1, <1>2 DEF IntakeInv, TaleInv, RecordInv, Traced
\* Another answer to that submission lets it through as well or asked for a human.
<1>6. ASSUME NEW t \in Answers, NEW o, Said(i, t, o), o \notin {"auto_approve", "approved"}
      PROVE  t = "decision-made" /\ o = "human_review"
  <2>1. PICK n \in sent : /\ n.topic = t /\ n.outcome = o
                          /\ n.invoice = i /\ n.version = record[i].version
    BY <1>6 DEF Said
  <2>2. n.topic = t /\ n.invoice = i /\ n.version = m.version /\ n.outcome = o
    BY <1>4, <2>1
  <2>3. Fellow(m, n) /\ Fellow(n, m)
    BY <2>2 DEF Fellow, i
  <2>4. m.topic # t
    BY <1>1, <1>6, <2>2, <2>3 DEF IntakeInv, TaleInv, BusInv
  <2>5. CASE m.topic = "approval-resolved"
    <3>1. PICK d \in sent : d.topic = "decision-made" /\ d.outcome = "human_review" /\ Fellow(m, d)
      BY <1>1, <2>5 DEF IntakeInv, CauseInv
    <3>2. d = n
      BY <1>6, <2>2, <2>3, <2>4, <2>5, <3>1 DEF Answers, Fellow, IntakeInv, TaleInv, BusInv
    <3> QED BY <2>2, <3>1, <3>2
  <2>6. CASE m.topic = "decision-made"
    <3>1. n.topic = "approval-resolved"
      BY <1>6, <2>2, <2>4, <2>6 DEF Answers
    <3>2. PICK d \in sent : d.topic = "decision-made" /\ d.outcome = "human_review" /\ Fellow(n, d)
      BY <3>1 DEF IntakeInv, CauseInv
    <3>3. d = m
      BY <1>1, <2>3, <2>6, <3>2 DEF Answers, Fellow, IntakeInv, TaleInv, BusInv
    <3> QED BY <1>1, <3>2, <3>3
  <2> QED BY <1>1, <2>5, <2>6 DEF Answers
<1>7. record[i].status \notin {"rejected", "duplicate", "needs_info"}
  <2>1. ASSUME NEW t \in Answers, NEW o \in {"reject", "rejected", "duplicate", "needs_info"}, Said(i, t, o)
        PROVE  FALSE
    BY <1>6, <2>1
  <2> QED BY <1>5, <2>1 DEF Earned, Answers
<1> QED BY <1>1, <1>2, <1>4, <1>7 DEF i

\* Money moves for the submission that is shown, and never behind a refusal, however the
\* services lag behind each other and whichever of the modelled faults one of them meets, as
\* long as no service answers again (that is the hypothesis of PaidAsShown: after a verdict
\* that was taken and rolled back, the amount of an earlier version may be paid) and
\* resubmissions do not overlap (payment saga.py:119-241, approval api.py:172-204, intake
\* status.py:15-63).
THEOREM OnlyWhatIsShownIsPaid == FlowSpec /\ []ResubmissionsDoNotOverlap => []PaidAsShown
<1>1. (AnsweredOnce => FlowInv) => PaidAsShown
  <2> SUFFICES ASSUME AnsweredOnce, FlowInv, NEW i \in Invoices, provider[i] # None
               PROVE  /\ record[i] # None
                      /\ record[i].status \notin {"rejected", "duplicate", "needs_info"}
                      /\ provider[i].amount = Amount[record[i].version]
    BY DEF PaidAsShown
  <2>1. PICK m \in GoAhead : m.invoice = i /\ provider[i].amount = Amount[m.version]
    BY DEF FlowInv, SagaInv, Ledger, AskedFor
  <2> QED BY <2>1, GoAheadStands DEF FlowInv
<1> QED BY <1>1, FlowIsKept, PTL

\* Nothing is on its way in any service and nothing failed, but for publishing a verdict.
AllAtRest == AtRest /\ Approval!AtRest /\ Payment!AtRest /\ Unharmed

\* What is known of an invoice then.
LEMMA RestTells ==
  ASSUME FlowInv, AllAtRest
  PROVE  /\ NoFaults /\ NoRaise /\ TurnInv /\ PaceInv /\ SmoothInv
         /\ \A m \in sent : Used(m)
         /\ apUnacked = {} /\ paUnacked = {}
         /\ \A h \in Handlers : apPc[h] = "idle" /\ paPc[h] = "idle"
         /\ \A a \in Approvers : apPc[a] = "idle"
<1>1. NoFaults /\ NoRaise
  BY DEF AllAtRest, Unharmed, NoFaults, NoRaise, Payment!Suffered, Payment!AllFaultKinds
<1>2. \A m \in sent : Used(m)
  BY DEF AllAtRest, AtRest, Workers, Used, FlowInv, IntakeInv, MarkInv
<1> QED BY <1>1, <1>2 DEF AllAtRest, Approval!AtRest, Payment!AtRest, Approval!Workers,
                          FlowInv, IntakeInv, SagaInv

\* The saga says how the payment went, and so does the status.
LEMMA PaymentsAgree ==
  ASSUME FlowInv, AllAtRest, NEW i \in Invoices, record[i] # None
  PROVE  /\ HasStatus(i, "paid") <=> SagaIn(i, {"paid"})
         /\ HasStatus(i, "payment_failed") <=> SagaIn(i, Payment!TerminalStates \ {"paid"})
<1> DEFINE Paid1   == \E m \in sent : m.invoice = i /\ m.topic = "payment-completed"
           Failed1 == \E m \in sent : m.invoice = i /\ m.topic = "payment-failed"
<1>l. Ledger(i) /\ Earned(i) /\ Traced(i) /\ Pace(i, record[i].version) /\ SmoothInv
  BY RestTells DEF FlowInv, SagaInv, IntakeInv, TaleInv, RecordInv, Traced, PaceInv
<1>1. Paid1 => SagaIn(i, {"paid"})
  BY <1>l DEF Ledger, Standing, SagaIn
<1>2. Failed1 => SagaIn(i, Payment!TerminalStates \ {"paid"})
  BY <1>l DEF Ledger, Standing, SagaIn, Payment!TerminalStates
<1>3. HasStatus(i, "paid") => Paid1
  BY <1>l, MsgParts DEF HasStatus, Earned, Said
<1>4. HasStatus(i, "payment_failed") => Failed1
  BY <1>l, MsgParts DEF HasStatus, Earned, Said
<1>5. ASSUME saga[i] # None PROVE Paid1 \/ Failed1
  <2>1. PICK e \in GoAhead : e.invoice = i
    BY <1>5, <1>l DEF Ledger, AskedFor
  <2>2. Reported(i)
    BY <1>l, <2>1, RestTells DEF SmoothInv, Begun
  <2> QED BY <2>2 DEF Reported, Payments
\* What was reported has reached the record.
<1>6. ASSUME NEW m \in sent, m.invoice = i, m.topic \in Payments
      PROVE  HasStatus(i, "paid") \/ HasStatus(i, "payment_failed")
  <2>1. PICK n \in sent : n.outcome \in {"auto_approve", "approved"} /\ Fellow(m, n)
    BY <1>6 DEF FlowInv, IntakeInv, TaleInv, BusInv
  <2>2. n \in GoAhead
    <3>1. Worded(n) /\ (n.topic = "invoice-submitted" => n.outcome = None)
      BY DEF FlowInv, IntakeInv, TaleInv, BusInv, TypeInv, Holding
    <3>2. n.outcome # None
      BY <2>1, IntakeAssumption DEF Routes, Verdicts
    <3> QED BY <2>1, <3>1, <3>2 DEF Worded, Message, GoAhead, Answers
  <2>3. /\ n.invoice = i /\ n.version = record[i].version /\ m.version = record[i].version
        /\ record[i].status \notin {"rejected", "duplicate", "needs_info"}
    BY <1>6, <2>1, <2>2, GoAheadStands DEF FlowInv, Fellow
  <2>4. Used(m)
    BY RestTells
  <2>5. DoneAt(i, record[i].version, Payments)
    BY <1>6, <2>3, <2>4 DEF DoneAt
  <2>6. DoneAt(i, record[i].version, Answers \cup Payments)
    BY <1>6, <2>3, <2>4 DEF DoneAt
  <2>7. record[i].status \notin {"submitted", "evaluating", "pending_approval", "approved"}
    BY <1>l, <2>5, <2>6 DEF Pace, HasStatus
  <2>8. record[i].status # "submit_failed"
    BY RestTells DEF TurnInv, HasStatus
  <2>9. record[i].status \in InvoiceStatus
    BY DEF FlowInv, IntakeInv, TypeInv, TypeOK, InvoiceRecord
  <2> QED BY <2>3, <2>7, <2>8, <2>9 DEF InvoiceStatus, HasStatus
<1>7. Paid1 \/ Failed1 => HasStatus(i, "paid") \/ HasStatus(i, "payment_failed")
  BY <1>6 DEF Payments
<1>8. ~(SagaIn(i, {"paid"}) /\ SagaIn(i, Payment!TerminalStates \ {"paid"}))
  BY DEF SagaIn
<1>9. \A states : SagaIn(i, states) => saga[i] # None
  BY DEF SagaIn
<1> HIDE DEF Paid1, Failed1
<1>10. SagaIn(i, {"paid"}) => HasStatus(i, "paid")
  BY <1>2, <1>4, <1>5, <1>7, <1>8, <1>9
<1>11. SagaIn(i, Payment!TerminalStates \ {"paid"}) => HasStatus(i, "payment_failed")
  BY <1>1, <1>3, <1>5, <1>7, <1>8, <1>9
<1> QED BY <1>1, <1>2, <1>3, <1>4, <1>10, <1>11

\* The review that is open is of the submission that is shown.
LEMMA ReviewsAgree ==
  ASSUME FlowInv, AllAtRest, NEW i \in Invoices, record[i] # None
  PROVE  /\ HasStatus(i, "pending_approval") <=> Approval!HasStatus(i, {"pending"})
         /\ HasStatus(i, "pending_approval") => Open(i)
         /\ HasStatus(i, "needs_info") => Approval!HasStatus(i, {"needs_info"})
<1> DEFINE v == record[i].version
<1>i. IntakeInv /\ ReviewInv /\ TypeInv /\ BusInv
  BY DEF FlowInv, IntakeInv, TaleInv
<1>l. Earned(i) /\ Pace(i, v) /\ SentKnown /\ v \in Nat
  BY <1>i, RestTells DEF IntakeInv, TaleInv, RecordInv, Traced, PaceInv, TypeInv, TypeOK,
                         InvoiceRecord, Versions
<1>r. \A a \in Approvers : ~Settling(a, i)
  BY RestTells DEF Settling
\* Of the escalation: its review was asked for, and is not of a later submission.
<1>1. ASSUME escalation[i] # None
      PROVE  /\ Reviewed(i) \in Asked /\ Reviewed(i).invoice = i
             /\ Reviewed(i).version \in Nat /\ Reviewed(i).version <= v
             /\ escalation[i].status \in Approval!Statuses
  <2>1. Reviewed(i) \in Asked /\ Reviewed(i).invoice = i
    BY <1>1, <1>i DEF ReviewInv, OpenedInv
  <2>2. Reviewed(i) \in sent /\ Reviewed(i).version \in Nat
    BY <1>i, <2>1, AskedTyped
  <2>3. escalation[i] \in Approval!Escalation
    BY <1>1, <1>i DEF ReviewInv, ReviewType, ReviewTypeOK
  <2> QED BY <1>l, <2>1, <2>2, <2>3 DEF SentKnown, Approval!Escalation
<1>2. ASSUME NEW r \in sent, r.topic = "approval-resolved", r.invoice = i, r.version = v
      PROVE  /\ escalation[i] # None /\ Reviewed(i).version = v /\ r.outcome = escalation[i].status
             /\ r.outcome \in Verdicts
             /\ DoneAt(i, v, {"approval-resolved"})
  <2>1. Told(r)
    BY <1>2, <1>i DEF ReviewInv, TellingInv
  <2>2. escalation[i] # None
    BY <1>2, <2>1 DEF Told
  <2>3. Reviewed(i).version = v /\ r.outcome = escalation[i].status
    BY <1>1, <1>2, <1>l, <2>1, <2>2 DEF Told
  <2>4. Used(r)
    BY RestTells
  <2> QED BY <1>2, <1>i, <2>2, <2>3, <2>4 DEF TypeInv, Holding, Worded, DoneAt
<1>3. ASSUME HasStatus(i, "pending_approval")
      PROVE  Approval!HasStatus(i, {"pending"}) /\ Reviewed(i).version = v
  <2>1. PICK e \in sent : /\ e.topic = "decision-made" /\ e.outcome = "human_review"
                          /\ e.invoice = i /\ e.version = v
    BY <1>3, <1>l DEF Earned, HasStatus, Said
  <2>2. e \in Asked /\ e.invoice = i /\ e.version = v
    BY <2>1 DEF Asked
  <2>3. ~Unopened(e)
    BY RestTells DEF Unopened
  <2>4. escalation[i] # None /\ Reviewed(i).version = v
    BY <1>1, <1>i, <1>l, <2>2, <2>3 DEF ReviewInv, OpenedInv
  <2>5. ASSUME escalation[i].status # "pending" PROVE FALSE
    <3>1. PICK r \in sent : r = Msg("approval-resolved", i, v, escalation[i].status)
      BY <1>i, <1>r, <2>4, <2>5 DEF ReviewInv, TellingInv, Telling
    <3>2. r.topic = "approval-resolved" /\ r.invoice = i /\ r.version = v
      BY <3>1, MsgParts
    <3>3. DoneAt(i, v, {"approval-resolved"})
      BY <1>2, <3>2
    <3> QED BY <1>3, <1>l, <3>3 DEF Pace
  <2> QED BY <2>4, <2>5 DEF Approval!HasStatus
<1>4. ASSUME Approval!HasStatus(i, {"pending"}) PROVE HasStatus(i, "pending_approval")
  <2>1. escalation[i] # None /\ escalation[i].status = "pending"
    BY <1>4 DEF Approval!HasStatus
  <2>2. Reviewed(i).version = v
    BY <1>i, <2>1, EarlierSentBack DEF Approval!HasStatus
  <2>3. Reviewed(i) \in sent /\ Reviewed(i).outcome = "human_review" /\ Used(Reviewed(i))
    BY <1>1, <2>1, RestTells DEF Asked
  <2>4. DoneAs(i, v, {"human_review"})
    BY <1>1, <2>1, <2>2, <2>3 DEF DoneAs
  <2>5. ASSUME DoneAt(i, v, {"approval-resolved"}) PROVE FALSE
    <3>1. PICK r \in sent : r.topic = "approval-resolved" /\ r.invoice = i /\ r.version = v
      BY <2>5 DEF DoneAt
    <3>2. r.outcome = escalation[i].status /\ r.outcome \in Verdicts
      BY <1>2, <3>1
    <3> QED BY <2>1, <3>2 DEF Verdicts
  <2> QED BY <1>l, <2>4, <2>5 DEF Pace
<1>5. ASSUME HasStatus(i, "pending_approval") PROVE Open(i)
  <2>1. Approval!HasStatus(i, {"pending"}) /\ escalation[i].review.version = v
    BY <1>3, <1>5 DEF Reviewed
  <2>2. overtaken[i] = {} => i \in queue
    BY <1>i, <2>1, RestTells DEF ReviewInv, QueueInv, Queued, Approval!HasStatus
  <2> QED BY <2>1, <2>2 DEF Open
<1>6. ASSUME HasStatus(i, "needs_info") PROVE Approval!HasStatus(i, {"needs_info"})
  <2>1. PICK r \in sent : /\ r.topic = "approval-resolved" /\ r.outcome = "needs_info"
                          /\ r.invoice = i /\ r.version = v
    BY <1>6, <1>l DEF Earned, HasStatus, Said
  <2> QED BY <1>2, <2>1 DEF Approval!HasStatus
<1> QED BY <1>3, <1>4, <1>5, <1>6

\* When nothing is on its way any more and nothing failed, the services tell one story: the
\* status is that of the saga or of the escalation, whose review is of the submission that is
\* shown and, unless it was opened under the call that settled the one before, in the queue.
THEOREM ServicesStayInAgreement == FlowSpec /\ []ResubmissionsDoNotOverlap => []ServicesAgree
<1>1. (AnsweredOnce => FlowInv) => ServicesAgree
  <2>0. AllAtRest => AnsweredOnce
    BY DEF AllAtRest, Unharmed, AnsweredOnce, Suffered, AllFaultKinds
  <2> SUFFICES ASSUME FlowInv, AllAtRest, NEW i \in Invoices, record[i] # None
               PROVE  /\ HasStatus(i, "paid") <=> SagaIn(i, {"paid"})
                      /\ HasStatus(i, "payment_failed") <=> SagaIn(i, Payment!TerminalStates \ {"paid"})
                      /\ HasStatus(i, "pending_approval") <=> Approval!HasStatus(i, {"pending"})
                      /\ HasStatus(i, "pending_approval") => Open(i)
                      /\ HasStatus(i, "needs_info") => Approval!HasStatus(i, {"needs_info"})
    BY <2>0 DEF ServicesAgree, AllAtRest
  <2> QED BY PaymentsAgree, ReviewsAgree
<1> QED BY <1>1, FlowIsKept, PTL

--------------------------------------------------------------------------------
(* Approval and payment in the story, and as their modules have them alone.  *)

\* The services as their own modules have them alone, where an event is there from the
\* start and is delivered until it is acknowledged: one that is not published yet is on
\* its way there, or, if it is about a resubmission, does not exist yet.
Reviewing == INSTANCE Approval WITH
  Viewers <- {}, MaxViews <- 0, views <- 0, todo <- <<>>, target <- <<>>,
  Events  <- Decisions,
  unsent  <- {m \in Decisions \ sent : m.version > 1},
  unacked <- apUnacked \cup {m \in Decisions \ sent : m.version = 1},
  Payload <- Reviews,
  FaultKinds <- ReviewFaults, processed <- apProcessed,
  published <- resolutions, accepted <- verdicts, pc <- apPc, event <- apEvent,
  faults <- apFaults

Paying == INSTANCE PaymentSaga WITH
  Events <- Triggers, Depts <- {"dept"}, Declining <- {},
  unacked <- paUnacked \cup (Triggers \ sent),
  Payload <- Requests, InitialBudget <- Budgets,
  NoBudget <- None, NoCeiling <- None, NoSaga <- None, NoPayment <- None, NoCall <- None,
  FaultKinds <- SagaFaults, processed <- paProcessed,
  published <- reports, pc <- paPc, faults <- paFaults

\* The instances differ in what is on its way.
LEMMA SameFaults ==
  ASSUME NEW kind
  PROVE  /\ Approval!Fault(kind) <=> Reviewing!Fault(kind)
         /\ Payment!Fault(kind) <=> Paying!Fault(kind)
<1>1. Approval!Fault(kind) <=> Reviewing!Fault(kind)
  BY Zenon DEF Approval!Fault, Approval!AllFaultKinds, Approval!MapThenSumSet, Approval!MapThenFoldSet,
               Reviewing!Fault, Reviewing!AllFaultKinds, Reviewing!MapThenSumSet, Reviewing!MapThenFoldSet
<1>2. Payment!Fault(kind) <=> Paying!Fault(kind)
  BY Zenon DEF Payment!Fault, Payment!AllFaultKinds, Payment!MapThenSumSet, Payment!MapThenFoldSet,
               Paying!Fault, Paying!AllFaultKinds, Paying!MapThenSumSet, Paying!MapThenFoldSet
<1> QED BY <1>1, <1>2

\* A handler's call that leaves the broker alone.
LEMMA SubscriberSame ==
  ASSUME NEW h \in Handlers, UNCHANGED Reviewing!broker,
         \/ Approval!FirstTime(h) \/ Approval!SaveNew(h) \/ Approval!Inspect(h)
         \/ Approval!Reopen(h) \/ Approval!Add(h) \/ Approval!Forget(h)
  PROVE  Reviewing!Subscriber(h)
<1> USE DEF Approval!Goto, Reviewing!Goto, Approval!Subject, Reviewing!Subject,
            Approval!stores, Reviewing!stores, Approval!history, Reviewing!history,
            Approval!locals, Reviewing!locals
<1>1. ASSUME Approval!FirstTime(h) PROVE Reviewing!FirstTime(h)
  BY <1>1, Zenon DEF Approval!FirstTime, Reviewing!FirstTime
<1>2. ASSUME Approval!SaveNew(h) PROVE Reviewing!SaveNew(h)
  BY <1>2, Zenon DEF Approval!SaveNew, Reviewing!SaveNew
<1>3. ASSUME Approval!Inspect(h) PROVE Reviewing!Inspect(h)
  BY <1>3, SameFaults, Zenon DEF Approval!Inspect, Reviewing!Inspect, Approval!Finds, Reviewing!Finds,
               Approval!AfterInspect, Reviewing!AfterInspect
<1>4. ASSUME Approval!Reopen(h) PROVE Reviewing!Reopen(h)
  BY <1>4, Zenon DEF Approval!Reopen, Reviewing!Reopen, Approval!HasStatus, Reviewing!HasStatus,
               Approval!Overtake, Reviewing!Overtake, Approval!CallsOn, Reviewing!CallsOn,
               Approval!SettledPcs, Reviewing!SettledPcs
<1>5. ASSUME Approval!Add(h) PROVE Reviewing!Add(h)
  BY <1>5, Zenon DEF Approval!Add, Reviewing!Add
<1>6. ASSUME Approval!Forget(h) PROVE Reviewing!Forget(h)
  BY <1>6, Zenon DEF Approval!Forget, Reviewing!Forget, Approval!Leave, Reviewing!Leave
<1> QED BY <1>1, <1>2, <1>3, <1>4, <1>5, <1>6 DEF Reviewing!Subscriber

\* What an approver does.
LEMMA EndpointSame ==
  ASSUME NEW a \in Approvers, UNCHANGED Reviewing!broker,
         \/ Approval!Resolve(a) \/ Approval!Publish(a) \/ Approval!Dequeue(a)
         \/ Approval!Revert(a) \/ Approval!Requeue(a) \/ Approval!PublishFails(a)
  PROVE  Reviewing!Endpoint(a) \/ Reviewing!PublishFails(a)
<1> USE DEF Approval!Goto, Reviewing!Goto, Approval!Invoice, Reviewing!Invoice,
            Approval!Answer, Reviewing!Answer, Approval!Sent, Reviewing!Sent,
            Approval!stores, Reviewing!stores, Approval!history, Reviewing!history,
            Approval!locals, Reviewing!locals
<1>1. ASSUME Approval!Resolve(a) PROVE Reviewing!Resolve(a)
  BY <1>1, Zenon DEF Approval!Resolve, Reviewing!Resolve, Approval!HasStatus, Reviewing!HasStatus,
               Approval!OpenForVerdict, Reviewing!OpenForVerdict, Approval!Settle, Reviewing!Settle,
               Approval!Noted, Reviewing!Noted
<1>2. ASSUME Approval!Publish(a) PROVE Reviewing!Publish(a)
  BY <1>2, Zenon DEF Approval!Publish, Reviewing!Publish
<1>3. ASSUME Approval!Dequeue(a) PROVE Reviewing!Dequeue(a)
  BY <1>3, Zenon DEF Approval!Dequeue, Reviewing!Dequeue
<1>4. ASSUME Approval!Revert(a) PROVE Reviewing!Revert(a)
  BY <1>4, Zenon DEF Approval!Revert, Reviewing!Revert,
               Approval!Overtake, Reviewing!Overtake, Approval!CallsOn, Reviewing!CallsOn,
               Approval!SettledPcs, Reviewing!SettledPcs
<1>5. ASSUME Approval!Requeue(a) PROVE Reviewing!Requeue(a)
  BY <1>5, Zenon DEF Approval!Requeue, Reviewing!Requeue
<1>6. ASSUME Approval!PublishFails(a) PROVE Reviewing!PublishFails(a)
  BY <1>6, SameFaults, Zenon DEF Approval!PublishFails, Reviewing!PublishFails
<1> QED BY <1>1, <1>2, <1>3, <1>4, <1>5, <1>6 DEF Reviewing!Endpoint

\* What approval says it published is never taken back.
LEMMA ResolutionsStay ==
  ASSUME ReviewActs \/ \E a \in Approvers : ApprovalPublish(a)
  PROVE  resolutions \subseteq resolutions'
<1> USE DEF Approval!Sent
<1>1. ASSUME NEW e \in apUnacked, Approval!Filter(e) \/ \E h \in Handlers : Approval!Deliver(h, e)
      PROVE  resolutions \subseteq resolutions'
  BY <1>1 DEF Approval!Filter, Approval!Deliver
<1>2. ASSUME NEW h \in Handlers, Approval!Subscriber(h) PROVE resolutions \subseteq resolutions'
  BY <1>2 DEF Approval!Subscriber, Approval!FirstTime, Approval!SaveNew, Approval!Inspect,
              Approval!Reopen, Approval!Add, Approval!Ack, Approval!Forget
<1>3. ASSUME NEW a \in Approvers,
             \/ Approval!Resolve(a) \/ Approval!Dequeue(a) \/ Approval!Revert(a)
             \/ Approval!Requeue(a) \/ Approval!PublishFails(a) \/ Approval!Publish(a)
             \/ \E i \in queue, verdict \in Verdicts : Approval!Post(a, i, verdict)
      PROVE  resolutions \subseteq resolutions'
  BY <1>3 DEF Approval!Resolve, Approval!Dequeue, Approval!Revert, Approval!Requeue,
              Approval!PublishFails, Approval!Publish, Approval!Post
<1> QED BY <1>1, <1>2, <1>3 DEF ReviewActs, ApprovalPublish

\* A verdict that was published is in the approval service's own list.
ListedInv ==
  \A m \in sent : m.topic = "approval-resolved" =>
    \E r \in resolutions : r.invoice = m.invoice /\ r.verdict = m.outcome

\* A resubmission was asked for.
AskedBackInv ==
  \A i \in Invoices : record[i] # None /\ record[i].version > 1 =>
    \E m \in sent : m.topic = "approval-resolved" /\ m.invoice = i /\ m.outcome = "needs_info"

\* Every step keeps each verdict that was sent in what approval says it published.
LEMMA ListedStep ==
  ASSUME FlowInv, ListedInv, PlainStep
  PROVE  ListedInv'
<1>1. TypeInv
  BY DEF FlowInv, IntakeInv
<1>2. ASSUME resolutions \subseteq resolutions',
             \A m \in sent' \ sent : m.topic # "approval-resolved"
      PROVE  ListedInv'
  BY <1>2 DEF ListedInv
<1>3. CASE IntakeMoves
  <2>1. UNCHANGED resolutions
    BY <1>3 DEF IntakeMoves, approvalVars, approvalOwn
  <2>2. \A m \in sent' \ sent : m.topic # "approval-resolved"
    BY <1>3 DEF IntakeMoves
  <2> QED BY <1>2, <2>1, <2>2
<1>4. CASE DecisionStep(FALSE)
  <2>1. PICK m \in Decisions : sent' = sent \cup {m} /\ UNCHANGED approvalOwn
    BY <1>1, <1>4, DecisionSays
  <2> QED BY <1>2, <2>1 DEF Decisions, approvalOwn
<1>5. CASE ReviewActs
  BY <1>2, <1>5, ResolutionsStay DEF ReviewActs, vars, bus
<1>6. CASE SagaActs /\ UNCHANGED approvalVars
  BY <1>2, <1>6 DEF SagaActs, vars, bus, approvalVars, approvalOwn
<1>7. ASSUME NEW h \in Handlers, PaymentPublish(h) PROVE ListedInv'
  <2>1. call[h].event \in GoAhead
    BY <1>1, <1>7, ReportIsFirst DEF FlowInv
  <2>2. PICK m \in Message : /\ sent' = sent \cup {m} /\ m.topic \in Payments
                             /\ UNCHANGED approvalOwn
    BY <1>1, <1>7, <2>1, ReportSays
  <2> QED BY <1>2, <2>2 DEF Payments, approvalOwn
<1>8. ASSUME NEW a \in Approvers, ApprovalPublish(a) PROVE ListedInv'
  <2> DEFINE m == Msg("approval-resolved", request[a].invoice, request[a].review.version,
                      request[a].verdict)
             r == [invoice |-> request[a].invoice, verdict |-> request[a].verdict,
                   review |-> request[a].review, by |-> a]
  <2>1. sent' = sent \cup {m}
    BY <1>8, ResolutionSays DEF ApprovalPublish, Announce, Broadcast, PlainStep
  <2>2. r \in resolutions'
    BY <1>8 DEF ApprovalPublish, Approval!Publish, Approval!Sent, Approval!Invoice
  <2>3. r.invoice = m.invoice /\ r.verdict = m.outcome
    BY MsgParts
  <2> HIDE DEF m, r
  <2> QED BY <1>8, <2>1, <2>2, <2>3, ResolutionsStay DEF ListedInv
<1> QED BY <1>1, <1>3, <1>4, <1>5, <1>6, <1>7, <1>8, StoryKinds

\* Every step keeps each resubmission after the send-back that asked for it.
LEMMA AskedBackStep ==
  ASSUME FlowInv, AskedBackInv, [Next]_vars
  PROVE  AskedBackInv'
<1>1. /\ TypeInv /\ StoryInv /\ BusInv /\ HandsInv /\ SentKnown
      /\ \A i \in Invoices : Traced(i)
  BY DEF FlowInv, IntakeInv, TaleInv, RecordInv
<1>2. sent \subseteq sent'
  BY <1>1, SentGrows
<1> SUFFICES ASSUME NEW i \in Invoices, record'[i] # None, record'[i].version > 1
             PROVE  \E m \in sent : /\ m.topic = "approval-resolved" /\ m.invoice = i
                                    /\ m.outcome = "needs_info"
  BY <1>2 DEF AskedBackInv
<1>3. CASE HasStatus(i, "needs_info")
  <2>1. PICK m \in sent : m = Msg("approval-resolved", i, record[i].version, "needs_info")
    BY <1>1, <1>3 DEF Traced, Closed, Happened
  <2> QED BY <2>1, MsgParts
<1>4. CASE record[i] # None /\ record'[i].version = record[i].version
  BY <1>4 DEF AskedBackInv
<1>5. CASE record[i] = None
  <2>1. ASSUME NEW j \in Invoices, NEW r \in InvoiceRecord, Writes(j, r), Begins(j, r) \/ TakesOn(j, r)
        PROVE  FALSE
    BY <1>5, <2>1 DEF Writes, Begins, TakesOn, HasStatus
  <2>2. ASSUME NEW c \in Clients, SaveResubmitted(c) PROVE FALSE
    <3>1. HasStatus(Own(c), "needs_info") /\ Writes(Own(c), draft[c].record)
      BY <1>1, <2>2, SaveResubmittedDoes DEF StoryInv, Relies
    <3> QED BY <1>5, <3>1 DEF Writes, HasStatus
  <2>3. ASSUME NEW h \in Handlers, Update(h), record' # record PROVE FALSE
    <3>1. PICK m \in sent : /\ record[m.invoice] # None
                            /\ \E r \in InvoiceRecord : Writes(m.invoice, r)
      BY <1>1, <2>3, UpdateFinds
    <3> QED BY <1>5, <3>1 DEF Writes
  <2> QED BY <1>1, <1>5, <2>1, <2>2, <2>3, RecordKinds
<1> QED BY <1>1, <1>3, <1>4, <1>5, RecordMoves

\* What is on its way to the approval service depends on what it has and on the decisions
\* that were published.
LEMMA ReviewBrokerStays ==
  ASSUME UNCHANGED apUnacked, \A m \in Decisions : m \in sent' <=> m \in sent
  PROVE  UNCHANGED Reviewing!broker
BY DEF Reviewing!broker

\* A step of the story is one of the approval module, or it does not concern it.
LEMMA ReviewRefines ==
  ASSUME FlowInv, ListedInv, AskedBackInv, PlainStep
  PROVE  [Reviewing!Next]_(Reviewing!vars)
<1>t. TypeInv /\ apUnacked \subseteq sent /\ apUnacked \subseteq Decisions
  BY DEF FlowInv, IntakeInv, ReviewInv, ReviewType, ReviewTypeOK
<1>1. ASSUME UNCHANGED approvalOwn, UNCHANGED Reviewing!broker
      PROVE  UNCHANGED Reviewing!vars
  BY <1>1 DEF approvalOwn, Reviewing!vars, Reviewing!stores, Reviewing!history, Reviewing!locals
<1>2. ASSUME UNCHANGED approvalVars, \A m \in Decisions : m \in sent' <=> m \in sent
      PROVE  UNCHANGED Reviewing!vars
  BY <1>1, <1>2, ReviewBrokerStays DEF approvalVars
<1>3. CASE IntakeMoves
  BY <1>2, <1>3 DEF IntakeMoves, Decisions
<1>4. CASE SagaActs /\ UNCHANGED approvalVars
  BY <1>2, <1>4 DEF SagaActs, vars, bus
<1>5. ASSUME NEW h \in Handlers, PaymentPublish(h) PROVE UNCHANGED Reviewing!vars
  <2>1. call[h].event \in GoAhead
    BY <1>t, <1>5, ReportIsFirst DEF FlowInv
  <2>2. PICK m \in Message : /\ Announce(m) /\ sent' = sent \cup {m} /\ m.topic \in Payments
                             /\ UNCHANGED approvalOwn
    BY <1>t, <1>5, <2>1, ReportSays
  <2>3. m \notin Decisions
    BY <2>2 DEF Payments, Decisions
  <2>4. UNCHANGED apUnacked
    BY <2>2, <2>3 DEF Announce
  <2> QED BY <1>1, <2>2, <2>3, <2>4, ReviewBrokerStays
<1>6. CASE DecisionStep(FALSE)
  <2>1. PICK m \in Decisions :
          /\ Announce(m) /\ sent' = sent \cup {m} /\ UNCHANGED approvalOwn
          /\ ~Answered({"decision-made"}, m.invoice, m.version)
          /\ \E n \in sent : n.topic = "invoice-submitted" /\ Fellow(m, n)
    BY <1>t, <1>6, DecisionSays
  <2>2. /\ m \notin sent /\ apUnacked' = apUnacked \cup {m}
        /\ m.invoice \in Invoices /\ m.version \in Nat /\ m.version >= 1
    BY <2>1 DEF Announce, Answered, Decisions, Message, Versions
  <2>3. CASE m.version = 1
    <3>1. UNCHANGED Reviewing!broker
      BY <2>1, <2>2, <2>3 DEF Reviewing!broker
    <3> QED BY <1>1, <2>1, <3>1
  <2>4. CASE m.version > 1
    <3>1. record[m.invoice] # None /\ record[m.invoice].version > 1
      <4>1. PICK n \in sent : Fellow(m, n)
        BY <2>1
      <4>2. /\ record[n.invoice] # None /\ n.version <= record[n.invoice].version
            /\ record[n.invoice].version \in Nat
        BY <1>t, <2>2, <4>1 DEF FlowInv, IntakeInv, TaleInv, RecordInv, SentKnown, TypeInv, TypeOK,
                                InvoiceRecord, Versions, Fellow
      <4> QED BY <2>2, <2>4, <4>1, <4>2 DEF Fellow
    <3>2. PICK r \in resolutions : r.invoice = m.invoice /\ r.verdict = "needs_info"
      BY <2>2, <3>1 DEF ListedInv, AskedBackInv
    <3>3. /\ {n \in Decisions \ sent' : n.version > 1} = {n \in Decisions \ sent : n.version > 1} \ {m}
          /\ apUnacked' \cup {n \in Decisions \ sent' : n.version = 1}
               = (apUnacked \cup {n \in Decisions \ sent : n.version = 1}) \cup {m}
      BY <2>1, <2>2, <2>4
    <3>4. Reviewing!Resubmit(m)
      BY <2>1, <2>2, <2>4, <3>2, <3>3
      DEF Reviewing!Resubmit, Reviews, approvalOwn, Reviewing!stores, Reviewing!history, Reviewing!locals
    <3> QED BY <3>4 DEF Reviewing!Next
  <2> QED BY <2>2, <2>3, <2>4
<1>7. ASSUME NEW a \in Approvers, ApprovalPublish(a) PROVE Reviewing!Next
  <2>1. /\ sent' = sent \cup {Msg("approval-resolved", request[a].invoice, request[a].review.version,
                                 request[a].verdict)}
        /\ UNCHANGED apUnacked
    BY <1>7, PublishSays DEF FlowInv, PlainStep
  <2>2. \A m \in Decisions : m \in sent' <=> m \in sent
    BY <2>1, MsgParts DEF Decisions
  <2>3. Reviewing!Endpoint(a) \/ Reviewing!PublishFails(a)
    BY <1>7, <2>1, <2>2, ReviewBrokerStays, EndpointSame DEF ApprovalPublish
  <2> QED BY <2>3 DEF Reviewing!Next
\* What the service does on its own: an event that leaves the broker was there.
<1>8. ASSUME NEW e \in apUnacked, apUnacked' = apUnacked \ {e}, UNCHANGED sent
      PROVE  /\ e \in apUnacked \cup {n \in Decisions \ sent : n.version = 1}
             /\ {n \in Decisions \ sent' : n.version > 1} = {n \in Decisions \ sent : n.version > 1}
             /\ apUnacked' \cup {n \in Decisions \ sent' : n.version = 1}
                  = (apUnacked \cup {n \in Decisions \ sent : n.version = 1}) \ {e}
  BY <1>t, <1>8
<1>9. ASSUME ReviewActs, NEW e \in apUnacked, Approval!Filter(e) PROVE Reviewing!Next
  <2>1. apUnacked' = apUnacked \ {e} /\ UNCHANGED sent
    BY <1>9 DEF ReviewActs, Approval!Filter, vars, bus
  <2>2. Reviewing!Filter(e)
    BY <1>8, <1>9, <2>1
    DEF Approval!Filter, Reviewing!Filter, Approval!stores, Reviewing!stores,
        Approval!history, Reviewing!history, Approval!locals, Reviewing!locals
  <2> QED BY <1>t, <2>2 DEF Reviewing!Next
<1>b. ASSUME ReviewActs, UNCHANGED apUnacked PROVE UNCHANGED Reviewing!broker
  BY <1>b, ReviewBrokerStays DEF ReviewActs, vars, bus
<1>10. ASSUME ReviewActs, NEW h \in Handlers, NEW e \in apUnacked, Approval!Deliver(h, e)
       PROVE  Reviewing!Next
  <2>1. UNCHANGED Reviewing!broker
    BY <1>b, <1>10 DEF Approval!Deliver, Approval!broker
  <2>2. e \in apUnacked \cup {n \in Decisions \ sent : n.version = 1}
    OBVIOUS
  <2>3. Reviewing!Deliver(h, e)
    BY <1>10, <2>1, <2>2, SameFaults, Zenon
    DEF Approval!Deliver, Reviewing!Deliver, Approval!Goto, Reviewing!Goto,
        Approval!stores, Reviewing!stores, Approval!history, Reviewing!history
  <2> QED BY <1>t, <2>3 DEF Reviewing!Next
<1>11. ASSUME ReviewActs, NEW h \in Handlers, Approval!Ack(h) PROVE Reviewing!Next
  <2>1. /\ apEvent[h] \in apUnacked /\ apUnacked' = apUnacked \ {apEvent[h]} /\ UNCHANGED sent
    BY <1>11 DEF ReviewActs, Approval!Ack, vars, bus, FlowInv, ReviewInv, ReviewType, ReviewHandler
  <2>2. Reviewing!Ack(h)
    BY <1>8, <1>11, <2>1
    DEF Approval!Ack, Reviewing!Ack, Approval!Leave, Reviewing!Leave, Approval!Goto, Reviewing!Goto,
        Approval!stores, Reviewing!stores, Approval!history, Reviewing!history
  <2> QED BY <2>2 DEF Reviewing!Next, Reviewing!Subscriber
<1>12. ASSUME ReviewActs, NEW h \in Handlers, Approval!Subscriber(h) PROVE Reviewing!Next
  <2>1. CASE Approval!Ack(h)
    BY <1>11, <1>12, <2>1
  <2>2. ASSUME \/ Approval!FirstTime(h) \/ Approval!SaveNew(h) \/ Approval!Inspect(h)
               \/ Approval!Reopen(h) \/ Approval!Add(h) \/ Approval!Forget(h)
        PROVE  Reviewing!Next
    <3>1. UNCHANGED apUnacked
      BY <2>2 DEF Approval!FirstTime, Approval!SaveNew, Approval!Inspect, Approval!Reopen,
                  Approval!Add, Approval!Forget, Approval!broker
    <3>2. Reviewing!Subscriber(h)
      BY <1>b, <1>12, <2>2, <3>1, SubscriberSame
    <3> QED BY <3>2 DEF Reviewing!Next
  <2> QED BY <1>12, <2>1, <2>2 DEF Approval!Subscriber
<1>13. ASSUME ReviewActs, NEW a \in Approvers,
              \/ Approval!Resolve(a) \/ Approval!Dequeue(a) \/ Approval!Revert(a)
              \/ Approval!Requeue(a) \/ Approval!PublishFails(a)
       PROVE  Reviewing!Next
  <2>1. UNCHANGED apUnacked
    BY <1>13 DEF Approval!Resolve, Approval!Dequeue, Approval!Revert, Approval!Requeue,
                 Approval!PublishFails, Approval!broker
  <2>2. Reviewing!Endpoint(a) \/ Reviewing!PublishFails(a)
    BY <1>b, <1>13, <2>1, EndpointSame
  <2> QED BY <2>2 DEF Reviewing!Next
<1>14. ASSUME ReviewActs, NEW a \in Approvers, NEW i \in queue, NEW verdict \in Verdicts,
              Approval!Post(a, i, verdict)
       PROVE  Reviewing!Next
  <2>1. UNCHANGED Reviewing!broker
    BY <1>b, <1>14 DEF Approval!Post, Approval!broker
  <2>2. Reviewing!Post(a, i, verdict)
    BY <1>14, <2>1, Zenon
    DEF Approval!Post, Reviewing!Post, Approval!Goto, Reviewing!Goto,
        Approval!stores, Reviewing!stores, Approval!history, Reviewing!history
  <2>3. i \in Invoices
    BY DEF FlowInv, ReviewInv, ReviewType, ReviewTypeOK
  <2> QED BY <2>2, <2>3 DEF Reviewing!Next
<1>15. CASE ReviewActs
  BY <1>9, <1>10, <1>12, <1>13, <1>14, <1>15 DEF ReviewActs
<1> QED BY <1>t, <1>3, <1>4, <1>5, <1>6, <1>7, <1>15, StoryKinds

\* What a handler of the payment service does but for what it has from the broker.
LEMMA SagaSame ==
  ASSUME NEW h \in Handlers,
         (paUnacked \cup (Triggers \ sent))' = paUnacked \cup (Triggers \ sent),
         \/ Payment!FirstTime(h) \/ Payment!Load(h) \/ Payment!Mark(h) \/ Payment!Reserve(h)
         \/ Payment!Execute(h) \/ Payment!Release(h) \/ Payment!Publish(h) \/ Payment!Forget(h)
         \/ Payment!Raise(h)
  PROVE  Paying!Step(h) \/ Paying!Raise(h)
<1> USE DEF Payment!Goto, Paying!Goto, Payment!InvoiceOf, Paying!InvoiceOf,
            Payment!stores, Paying!stores, Payment!history, Paying!history
<1>1. ASSUME Payment!FirstTime(h) PROVE Paying!FirstTime(h)
  BY <1>1, Zenon DEF Payment!FirstTime, Paying!FirstTime
<1>2. ASSUME Payment!Load(h) PROVE Paying!Load(h)
  BY <1>2, Zenon DEF Payment!Load, Paying!Load, Payment!Adopted, Paying!Adopted,
               Payment!IsTerminal, Paying!IsTerminal, Payment!TerminalStates, Paying!TerminalStates,
               Payment!AfterLoad, Paying!AfterLoad, Payment!AboveCeiling, Paying!AboveCeiling
<1>3. ASSUME Payment!Mark(h) PROVE Paying!Mark(h)
  BY <1>3, Zenon DEF Payment!Mark, Paying!Mark, Payment!Marker, Paying!Marker,
               Payment!Transition, Paying!Transition
<1>4. ASSUME Payment!Reserve(h) PROVE Paying!Reserve(h)
  BY <1>4, Zenon DEF Payment!Reserve, Paying!Reserve, Payment!Seeded, Paying!Seeded,
               Payment!Covers, Paying!Covers
<1>5. ASSUME Payment!Execute(h) PROVE Paying!Execute(h)
  BY <1>5, Zenon DEF Payment!Execute, Paying!Execute
<1>6. ASSUME Payment!Release(h) PROVE Paying!Release(h)
  BY <1>6, Zenon DEF Payment!Release, Paying!Release, Payment!Seeded, Paying!Seeded,
               Payment!Credited, Paying!Credited
<1>7. ASSUME Payment!Publish(h) PROVE Paying!Publish(h)
  BY <1>7, Zenon DEF Payment!Publish, Paying!Publish
<1>8. ASSUME Payment!Forget(h) PROVE Paying!Forget(h)
  BY <1>8, Zenon DEF Payment!Forget, Paying!Forget, Payment!Return, Paying!Return
<1>9. ASSUME Payment!Raise(h) PROVE Paying!Raise(h)
  BY <1>9, SameFaults, Zenon DEF Payment!Raise, Paying!Raise, Payment!BodyPcs, Paying!BodyPcs
<1> QED BY <1>1, <1>2, <1>3, <1>4, <1>5, <1>6, <1>7, <1>8, <1>9 DEF Paying!Step

\* A step of the story is one of the payment module, or it does not concern it.
LEMMA SagaRefines ==
  ASSUME FlowInv, PlainStep
  PROVE  [Paying!Next]_(Paying!vars)
<1> DEFINE due == paUnacked \cup (Triggers \ sent)
<1>t. TypeInv /\ paUnacked \subseteq sent /\ paUnacked \subseteq Triggers
  BY DEF FlowInv, IntakeInv, SagaInv, SagaType, SagaTypeOK
<1>1. ASSUME SagaRests PROVE UNCHANGED Paying!vars
  <2>1. PICK N \in SUBSET Message :
          /\ sent' = sent \cup N /\ paUnacked' = paUnacked \cup (N \cap Triggers)
          /\ \A m \in N : m.topic \in Answers => m \notin sent
    BY <1>1 DEF SagaRests
  <2>2. \A m \in N \cap Triggers : m \notin sent
    BY <2>1 DEF Triggers, Answers
  <2>3. due' = due
    BY <1>t, <2>1, <2>2
  <2>4. UNCHANGED paymentOwn
    BY <1>1 DEF SagaRests
  <2> QED BY <2>3, <2>4 DEF paymentOwn, Paying!vars, Paying!stores, Paying!history
<1>2. ASSUME NEW h \in Handlers, PaymentPublish(h) PROVE Paying!Next
  <2>1. call[h].event \in GoAhead
    BY <1>t, <1>2, ReportIsFirst DEF FlowInv
  <2>2. PICK m \in Message : Announce(m) /\ sent' = sent \cup {m} /\ m.topic \in Payments
    BY <1>t, <1>2, <2>1, ReportSays
  <2>3. m \notin Triggers
    BY <2>2 DEF Payments, Triggers
  <2>4. paUnacked' = paUnacked
    BY <2>2, <2>3 DEF Announce
  <2>5. due' = due
    BY <2>2, <2>3, <2>4
  <2>6. Paying!Step(h) \/ Paying!Raise(h)
    BY <1>2, <2>5, SagaSame DEF PaymentPublish
  <2> QED BY <2>6 DEF Paying!Next
<1>3. ASSUME UNCHANGED sent, UNCHANGED paUnacked PROVE due' = due
  BY <1>3
<1>4. ASSUME UNCHANGED sent, NEW e \in paUnacked, paUnacked' = paUnacked \ {e}
      PROVE  e \in due /\ due' = due \ {e} /\ e \in Triggers
  BY <1>t, <1>4
<1>5. ASSUME UNCHANGED sent, NEW e \in paUnacked, Payment!Filter(e) PROVE Paying!Next
  <2>1. paUnacked' = paUnacked \ {e}
    BY <1>5 DEF Payment!Filter
  <2>2. Paying!Filter(e)
    BY <1>4, <1>5, <2>1
    DEF Payment!Filter, Paying!Filter, Payment!stores, Paying!stores, Payment!history, Paying!history
  <2> QED BY <1>t, <2>2 DEF Paying!Next
<1>6. ASSUME UNCHANGED sent, NEW h \in Handlers, NEW e \in paUnacked, Payment!Deliver(h, e)
      PROVE  Paying!Next
  <2>1. due' = due /\ e \in due
    BY <1>3, <1>6 DEF Payment!Deliver
  <2>2. Paying!Deliver(h, e)
    BY <1>6, <2>1, SameFaults, Zenon
    DEF Payment!Deliver, Paying!Deliver, Payment!Goto, Paying!Goto, Payment!Busy, Paying!Busy,
        Payment!InvoiceOf, Paying!InvoiceOf,
        Payment!stores, Paying!stores, Payment!history, Paying!history
  <2> QED BY <1>t, <2>2 DEF Paying!Next
<1>7. ASSUME UNCHANGED sent, NEW h \in Handlers, Payment!Ack(h) PROVE Paying!Next
  <2>1. call[h].event \in paUnacked /\ paUnacked' = paUnacked \ {call[h].event}
    BY <1>7 DEF Payment!Ack, FlowInv, SagaInv, SagaType, SagaHandler
  <2>2. Paying!Ack(h)
    BY <1>4, <1>7, <2>1
    DEF Payment!Ack, Paying!Ack, Payment!Return, Paying!Return,
        Payment!stores, Paying!stores, Payment!history, Paying!history
  <2> QED BY <2>2 DEF Paying!Next, Paying!Step
<1>8. ASSUME UNCHANGED sent, NEW h \in Handlers,
             \/ Payment!FirstTime(h) \/ Payment!Load(h) \/ Payment!Mark(h) \/ Payment!Reserve(h)
             \/ Payment!Execute(h) \/ Payment!Release(h) \/ Payment!Forget(h)
             \/ Payment!Raise(h)
      PROVE  Paying!Next
  <2>1. UNCHANGED paUnacked
    BY <1>8 DEF Payment!FirstTime, Payment!Load, Payment!Mark, Payment!Reserve, Payment!Execute,
                Payment!Release, Payment!Forget, Payment!Raise
  <2>2. due' = due
    BY <1>3, <1>8, <2>1
  <2>3. Paying!Step(h) \/ Paying!Raise(h)
    BY <1>8, <2>2, SagaSame
  <2> QED BY <2>3 DEF Paying!Next
<1>9. CASE SagaActs
  <2>1. UNCHANGED sent
    BY <1>9 DEF SagaActs, vars, bus
  <2> HIDE DEF due
  <2> QED BY <1>5, <1>6, <1>7, <1>8, <1>9, <2>1 DEF SagaActs
<1> QED BY <1>1, <1>2, <1>9, SagaKinds DEF FlowInv

\* Nothing is published and nothing handled at first.
LEMMA ServicesInit ==
  ASSUME FlowInit
  PROVE  Reviewing!Init /\ Paying!Init /\ ListedInv /\ AskedBackInv
<1>1. sent = {} /\ apUnacked = {} /\ paUnacked = {} /\ \A i \in Invoices : record[i] = None
  BY DEF FlowInit, Init
<1>2. \A m \in Decisions : m.version \in Nat /\ m.version >= 1 /\ Reviews[m].resubmission = (m.version > 1)
  BY DEF Decisions, Message, Versions, Reviews
<1>3. {m \in Decisions \ sent : m.version > 1} = {e \in Decisions : Reviews[e].resubmission}
  BY <1>1, <1>2
<1>4. apUnacked \cup {m \in Decisions \ sent : m.version = 1}
        = Decisions \ {m \in Decisions \ sent : m.version > 1}
  BY <1>1, <1>2
<1>5. Reviewing!Fresh
  BY DEF FlowInit, Approval!Fresh, Reviewing!Fresh, Approval!Workers, Reviewing!Workers,
         Approval!AllFaultKinds, Reviewing!AllFaultKinds
<1>6. Reviewing!Init
  BY <1>3, <1>4, <1>5 DEF Reviewing!Init
<1>7. Paying!Fresh
  BY DEF FlowInit, Payment!Fresh, Paying!Fresh, Payment!AllFaultKinds, Paying!AllFaultKinds
<1>8. Paying!Init
  BY <1>1, <1>7 DEF FlowInit, Paying!Init
<1> QED BY <1>1, <1>6, <1>8 DEF ListedInv, AskedBackInv

\* The approval service is in the story what its module says: the decisions it sees are
\* those the module lets it see, a new one of an invoice only after it sent the invoice back,
\* each delivered until it is acknowledged and never again, as long as no service answers
\* again and resubmissions do not overlap (subscriptions.py:124-184, api.py:123-220).
THEOREM StoryImplementsApproval ==
  FlowSpec /\ []ResubmissionsDoNotOverlap /\ []AnsweredOnce => Reviewing!Spec
<1>1. FlowInv /\ FlowInv' /\ ListedInv /\ AskedBackInv /\ PlainStep /\ [Next]_vars
        => ListedInv' /\ AskedBackInv' /\ [Reviewing!Next]_(Reviewing!vars)
  BY ListedStep, AskedBackStep, ReviewRefines
<1>2. FlowInit => Reviewing!Init /\ ListedInv /\ AskedBackInv
  BY ServicesInit
<1>3. UNCHANGED flowVars => UNCHANGED <<Reviewing!vars, sent, record, resolutions>>
  BY DEF flowVars, vars, stores, bus, approvalVars, approvalOwn, Reviewing!vars, Reviewing!broker,
         Reviewing!stores, Reviewing!history, Reviewing!locals
<1>4. UNCHANGED flowVars /\ ListedInv /\ AskedBackInv
        => ListedInv' /\ AskedBackInv' /\ UNCHANGED Reviewing!vars
  BY <1>3 DEF ListedInv, AskedBackInv
<1> QED BY <1>1, <1>2, <1>4, FlowIsKept, PTL DEF FlowSpec, Reviewing!Spec

\* The payment service is in the story what its module says: an event that triggers a payment
\* is published once, delivered until it is acknowledged and never again, as long as no
\* service answers again and resubmissions do not overlap (subscriptions.py:86-150,
\* saga.py:119-293).
THEOREM StoryImplementsPayment ==
  FlowSpec /\ []ResubmissionsDoNotOverlap /\ []AnsweredOnce => Paying!Spec
<1>1. FlowInv /\ PlainStep => [Paying!Next]_(Paying!vars)
  BY SagaRefines
<1>2. FlowInit => Paying!Init
  BY ServicesInit
<1>3. UNCHANGED flowVars => UNCHANGED Paying!vars
  BY DEF flowVars, vars, bus, paymentVars, paymentOwn, Paying!vars, Paying!stores, Paying!history
<1> QED BY <1>1, <1>2, <1>3, FlowIsKept, PTL DEF FlowSpec, Paying!Spec
================================================================================

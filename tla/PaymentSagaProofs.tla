--------------------------- MODULE PaymentSagaProofs ---------------------------
(***************************************************************************)
(* What holds of PaymentSaga for every set of handlers, events, invoices   *)
(* and departments, every payload, every budget and every bound on faults. *)
(***************************************************************************)
EXTENDS PaymentSaga, Sums, TLAPS

--------------------------------------------------------------------------------
(* Type correctness.  TypeOK is not inductive: that release() never makes a *)
(* budget negative needs the amounts past the poison guard to be positive.  *)

MoneyPcs ==
  {"mark_started", "reserve", "mark_rejected", "mark_reserved", "execute",
   "release", "mark_compensated", "mark_paid"}

PositiveAmounts ==
  \A h \in Handlers : pc[h] \in MoneyPcs => call[h].amount > 0

TypeInv == TypeOK /\ PositiveAmounts

\* A handler in flight has locals of the right type, for an event that exists.
LEMMA CallTyped ==
  ASSUME TypeOK, NEW h \in Handlers, pc[h] # "idle"
  PROVE  /\ call[h] \in Call
         /\ call[h].event \in Events
         /\ call[h].dept \in Depts
         /\ call[h].amount \in Int
         /\ InvoiceOf(h) \in Invoices
  BY PayloadAssumption DEF TypeOK, Call, InvoiceOf, PayloadType

\* Seeding keeps every budget a natural number or absent.
LEMMA SeededTyped ==
  ASSUME NEW b \in [Depts -> Nat \cup {NoBudget}]
  PROVE  Seeded(b) \in [Depts -> Nat \cup {NoBudget}]
  BY BudgetAssumption DEF Seeded

\* A marker leaves a well-typed saga record.
LEMMA TransitionTyped ==
  ASSUME TypeOK, NEW h \in Handlers, pc[h] # "idle",
         NEW s \in {"started", "reserved"} \cup TerminalStates,
         Transition(h, s)
  PROVE  saga' \in [Invoices -> SagaRecord \cup {NoSaga}]
<1>1. /\ call[h].dept \in Depts
      /\ call[h].amount \in Int
      /\ InvoiceOf(h) \in Invoices
  BY CallTyped
<1>2. saga[InvoiceOf(h)] # NoSaga => saga[InvoiceOf(h)] \in SagaRecord
  BY <1>1 DEF TypeOK
<1>3. saga'[InvoiceOf(h)] \in SagaRecord
  BY <1>1, <1>2 DEF Transition, TypeOK, SagaRecord
<1>4. QED
  BY <1>1, <1>3 DEF Transition, TypeOK

\* Every step preserves the type invariant.
LEMMA TypeStep == TypeInv /\ [Next]_vars => TypeInv'
<1> SUFFICES ASSUME TypeInv, [Next]_vars PROVE TypeInv'
  OBVIOUS
<1> USE DEF TypeInv
<1>1. ASSUME NEW e \in Events, Filter(e) PROVE TypeInv'
  BY <1>1 DEF Filter, TypeOK, PositiveAmounts, stores, history
<1>2. ASSUME NEW h \in Handlers, NEW e \in Events, Deliver(h, e) PROVE TypeInv'
  <2>1. [event |-> e, dept |-> Payload[e].dept, amount |-> Payload[e].amount] \in Call
    BY PayloadAssumption DEF PayloadType, Call
  <2>2. faults' \in [AllFaultKinds -> Nat]
    BY <1>2, FaultAssumption DEF Deliver, Fault, TypeOK
  <2>3. QED
    BY <1>2, <2>1, <2>2
    DEF Deliver, Goto, TypeOK, PositiveAmounts, MoneyPcs, Pcs, BodyPcs, stores, history
<1>3. ASSUME NEW h \in Handlers, FirstTime(h) PROVE TypeInv'
  <2>1. call[h].event \in Events
    BY <1>3, CallTyped DEF FirstTime
  <2>2. QED
    BY <1>3, <2>1
    DEF FirstTime, Goto, TypeOK, PositiveAmounts, MoneyPcs, Pcs, BodyPcs, stores, history
<1>4. ASSUME NEW h \in Handlers, Load(h) PROVE TypeInv'
  <2> DEFINE record  == saga[InvoiceOf(h)]
             adopted == Adopted(call[h], record)
             next    == AfterLoad(adopted.event, record, adopted.amount)
  <2>1. pc[h] = "load" /\ UNCHANGED <<unacked, stores, published, faults, history>>
    BY <1>4 DEF Load
  <2>2. InvoiceOf(h) \in Invoices /\ call[h] \in Call
    BY <2>1, CallTyped
  <2>3. record \in SagaRecord \cup {NoSaga}
    BY <2>2 DEF TypeOK
  <2>4. adopted \in Call
    BY <2>2, <2>3 DEF Adopted, Call, SagaRecord
  <2>5. CASE Goto(h, "ack") /\ UNCHANGED call
    BY <2>1, <2>5
    DEF Goto, TypeOK, PositiveAmounts, MoneyPcs, Pcs, BodyPcs, stores, history
  <2>6. CASE Goto(h, next) /\ call' = [call EXCEPT ![h] = adopted]
    <3>1. next \in Pcs
      BY DEF AfterLoad, Pcs, BodyPcs
    <3>2. next \in MoneyPcs => adopted.amount > 0
      BY <2>4 DEF AfterLoad, MoneyPcs, Call
    <3> HIDE DEF next, adopted
    <3>3. QED
      BY <2>1, <2>4, <2>6, <3>1, <3>2
      DEF Goto, TypeOK, PositiveAmounts, stores, history
  <2>7. QED
    BY <1>4, <2>5, <2>6 DEF Load
<1>5. ASSUME NEW h \in Handlers, Mark(h) PROVE TypeInv'
  <2>1. PICK m \in Marker :
          /\ pc[h] = m.at
          /\ Transition(h, m.writes)
          /\ Goto(h, m.next)
          /\ UNCHANGED <<unacked, processed, budget, provider, published, call, faults, history>>
    BY <1>5 DEF Mark
  <2>2. /\ pc[h] # "idle"
        /\ m.writes \in {"started", "reserved"} \cup TerminalStates
        /\ m.next \in Pcs
        /\ m.next \in MoneyPcs => pc[h] \in MoneyPcs
    BY <2>1 DEF Marker, TerminalStates, Pcs, BodyPcs, MoneyPcs
  <2>3. saga' \in [Invoices -> SagaRecord \cup {NoSaga}]
    BY <2>1, <2>2, TransitionTyped
  <2>4. QED
    BY <2>1, <2>2, <2>3 DEF Goto, TypeOK, PositiveAmounts, history
<1>6. ASSUME NEW h \in Handlers, Reserve(h) PROVE TypeInv'
  <2> DEFINE b == Seeded(budget)
  <2>1. pc[h] = "reserve" /\ InvoiceOf(h) \in Invoices /\ call[h] \in Call
        /\ call[h].dept \in Depts /\ call[h].amount \in Int /\ call[h].amount > 0
    BY <1>6, CallTyped DEF Reserve, PositiveAmounts, MoneyPcs
  <2>2. b \in [Depts -> Nat \cup {NoBudget}]
    BY SeededTyped DEF TypeOK
  <2>3. budget' \in [Depts -> Nat \cup {NoBudget}]
    <3>1. CASE Covers(b[call[h].dept], call[h].amount)
      <4>1. b[call[h].dept] - call[h].amount \in Nat
        BY <2>1, <2>2, <3>1 DEF Covers
      <4>2. budget' = [b EXCEPT ![call[h].dept] = @ - call[h].amount]
        BY <1>6, <3>1 DEF Reserve
      <4> HIDE DEF b
      <4>3. QED
        BY <2>1, <2>2, <4>1, <4>2
    <3>2. CASE ~Covers(b[call[h].dept], call[h].amount)
      BY <1>6, <2>2, <3>2 DEF Reserve
    <3>3. QED
      BY <3>1, <3>2
  <2>4. reserves' \in [Invoices -> Nat]
    BY <1>6, <2>1 DEF Reserve, TypeOK
  <2>5. \/ Goto(h, "mark_reserved")
        \/ Goto(h, "mark_rejected")
    BY <1>6 DEF Reserve
  <2>6. UNCHANGED <<unacked, processed, saga, provider, published, call, faults, releases>>
    BY <1>6 DEF Reserve
  <2>7. QED
    BY <2>1, <2>3, <2>4, <2>5, <2>6
    DEF Goto, TypeOK, PositiveAmounts, MoneyPcs, Pcs, BodyPcs
<1>7. ASSUME NEW h \in Handlers, Execute(h) PROVE TypeInv'
  <2>1. pc[h] = "execute" /\ InvoiceOf(h) \in Invoices /\ call[h].amount > 0
        /\ call[h].dept \in Depts /\ call[h].amount \in Int
    BY <1>7, CallTyped DEF Execute, PositiveAmounts, MoneyPcs
  <2>2. provider' \in [Invoices -> Payment \cup {NoPayment}]
    BY <1>7, <2>1 DEF Execute, TypeOK, Payment
  <2>3. \/ Goto(h, "mark_paid")
        \/ Goto(h, "release")
    BY <1>7 DEF Execute
  <2>4. UNCHANGED <<unacked, processed, saga, budget, published, call, faults, history>>
    BY <1>7 DEF Execute
  <2>5. QED
    BY <2>1, <2>2, <2>3, <2>4
    DEF Goto, TypeOK, PositiveAmounts, MoneyPcs, Pcs, BodyPcs, history
<1>8. ASSUME NEW h \in Handlers, Release(h) PROVE TypeInv'
  <2> DEFINE b == Seeded(budget)
  <2>1. pc[h] = "release" /\ InvoiceOf(h) \in Invoices /\ call[h].amount > 0
        /\ call[h].dept \in Depts /\ call[h].amount \in Int
    BY <1>8, CallTyped DEF Release, PositiveAmounts, MoneyPcs
  <2>2. b \in [Depts -> Nat \cup {NoBudget}]
    BY SeededTyped DEF TypeOK
  <2>3. Credited(b[call[h].dept], call[h].amount) \in Nat \cup {NoBudget}
    BY <2>1, <2>2 DEF Credited
  <2>4. budget' = [b EXCEPT ![call[h].dept] = Credited(@, call[h].amount)]
    BY <1>8 DEF Release
  <2> HIDE DEF b
  <2>5. budget' \in [Depts -> Nat \cup {NoBudget}]
    BY <2>1, <2>2, <2>3, <2>4
  <2>6. releases' \in [Invoices -> Nat]
    BY <1>8, <2>1 DEF Release, TypeOK
  <2>7. Goto(h, "mark_compensated")
        /\ UNCHANGED <<unacked, processed, saga, provider, published, call, faults, reserves>>
    BY <1>8 DEF Release
  <2>8. QED
    BY <2>1, <2>5, <2>6, <2>7
    DEF Goto, TypeOK, PositiveAmounts, MoneyPcs, Pcs, BodyPcs
<1>9. ASSUME NEW h \in Handlers, Publish(h) PROVE TypeInv'
  <2>1. InvoiceOf(h) \in Invoices /\ call[h].event \in Events
    BY <1>9, CallTyped DEF Publish
  <2>2. published' \in SUBSET Report
    <3> DEFINE topic == IF pc[h] = "publish_completed"
                        THEN "payment-completed" ELSE "payment-failed"
               flag  == pc[h] = "publish_compensated"
               r     == [topic       |-> topic,
                         invoice     |-> InvoiceOf(h),
                         compensated |-> flag,
                         trigger     |-> call[h].event]
    <3>1. topic \in {"payment-completed", "payment-failed"} /\ flag \in BOOLEAN
      OBVIOUS
    <3>2. published' = published \cup {r}
      BY <1>9 DEF Publish
    <3> HIDE DEF topic, flag
    <3>3. r \in Report
      BY <2>1, <3>1, Zenon DEF Report
    <3>4. QED
      BY <3>2, <3>3 DEF TypeOK
  <2>3. pc[h] # "idle" /\ Goto(h, "published")
        /\ UNCHANGED <<unacked, stores, call, faults, history>>
    BY <1>9 DEF Publish
  <2>4. QED
    BY <2>2, <2>3
    DEF Goto, TypeOK, PositiveAmounts, MoneyPcs, Pcs, BodyPcs, stores, history
<1>10. ASSUME NEW h \in Handlers, Ack(h) \/ Forget(h) PROVE TypeInv'
  BY <1>10
  DEF Ack, Forget, Return, TypeOK, PositiveAmounts, MoneyPcs, Pcs, stores, history
<1>11. CASE Seed
  BY <1>11, SeededTyped DEF Seed, TypeOK, PositiveAmounts, history
<1>12. ASSUME NEW h \in Handlers, Raise(h) PROVE TypeInv'
  BY <1>12, FaultAssumption
  DEF Raise, Fault, Goto, TypeOK, PositiveAmounts, MoneyPcs, Pcs, BodyPcs, stores, history
<1>13. ASSUME NEW h \in Handlers, RaiseInFirstTime(h) PROVE TypeInv'
  <2>1. call[h].event \in Events
    BY <1>13, CallTyped DEF RaiseInFirstTime
  <2>2. QED
    BY <1>13, <2>1, FaultAssumption
    DEF RaiseInFirstTime, Fault, Return, TypeOK, PositiveAmounts, MoneyPcs, Pcs, history
<1>14. ASSUME NEW h \in Handlers, ForgetFails(h) PROVE TypeInv'
  BY <1>14, FaultAssumption
  DEF ForgetFails, Fault, Return, TypeOK, PositiveAmounts, MoneyPcs, Pcs, stores, history
<1>15. CASE Crash
  BY <1>15, FaultAssumption
  DEF Crash, Fault, TypeOK, PositiveAmounts, MoneyPcs, Pcs, stores, history
<1>16. CASE Switch
  BY <1>16, FaultAssumption DEF Switch, Fault, TypeOK, PositiveAmounts, stores, history
<1>17. CASE UNCHANGED vars
  BY <1>17 DEF vars, TypeOK, PositiveAmounts, stores, history
<1>18. QED
  BY <1>1, <1>2, <1>3, <1>4, <1>5, <1>6, <1>7, <1>8, <1>9, <1>10, <1>11, <1>12,
     <1>13, <1>14, <1>15, <1>16, <1>17
  DEF Next, Step

\* The invariant holds of every behaviour.
LEMMA TypeInvariant == Spec => []TypeInv
<1>1. Init => TypeInv
  BY FaultAssumption
  DEF Init, Fresh, TypeInv, TypeOK, PositiveAmounts, MoneyPcs, Pcs
<1>2. QED
  BY <1>1, TypeStep, PTL DEF Spec

\* The stores, the broker and the handlers' locals keep their types; in
\* particular no budget is ever negative.
THEOREM TypeCorrect == Spec => []TypeOK
<1>1. TypeInv => TypeOK
  BY DEF TypeInv
<1>2. QED
  BY <1>1, TypeInvariant, PTL

--------------------------------------------------------------------------------
(* No payment without a reservation, whatever the overlap of deliveries and *)
(* the faults: a saga marked as reserved, and a handler on its way to       *)
(* execute(), have a reservation behind them.                               *)

ReservationInv ==
  /\ \A i \in Invoices :
       /\ provider[i] # NoPayment => reserves[i] > 0
       /\ saga[i] # NoSaga /\ saga[i].state = "reserved" => reserves[i] > 0
  /\ \A h \in Handlers :
       pc[h] \in {"mark_reserved", "execute"} => reserves[InvoiceOf(h)] > 0

\* Every step preserves the reservation invariant.
LEMMA ReservationStep ==
  TypeInv /\ ReservationInv /\ [Next]_vars => ReservationInv'
<1> SUFFICES ASSUME TypeInv, ReservationInv, [Next]_vars PROVE ReservationInv'
  OBVIOUS
<1> USE DEF TypeInv
<1>0. \A h \in Handlers : pc[h] # "idle" => InvoiceOf(h) \in Invoices
  BY CallTyped
<1>1. ASSUME NEW e \in Events, Filter(e) PROVE ReservationInv'
  BY <1>1 DEF Filter, ReservationInv, stores, history, InvoiceOf
<1>2. ASSUME NEW h \in Handlers, NEW e \in Events, Deliver(h, e) PROVE ReservationInv'
  BY <1>2 DEF Deliver, Goto, TypeOK, ReservationInv, stores, history, InvoiceOf
<1>3. ASSUME NEW h \in Handlers, FirstTime(h) PROVE ReservationInv'
  BY <1>3 DEF FirstTime, Goto, TypeOK, ReservationInv, history, InvoiceOf
<1>4. ASSUME NEW h \in Handlers, Load(h) PROVE ReservationInv'
  <2> DEFINE record  == saga[InvoiceOf(h)]
             adopted == Adopted(call[h], record)
             next    == AfterLoad(adopted.event, record, adopted.amount)
  <2>1. pc[h] = "load" /\ UNCHANGED <<unacked, stores, published, faults, history>>
    BY <1>4 DEF Load
  <2>2. InvoiceOf(h) \in Invoices /\ call[h] \in Call
    BY <2>1, CallTyped
  <2>3. CASE Goto(h, "ack") /\ UNCHANGED call
    BY <2>1, <2>3 DEF Goto, TypeOK, ReservationInv, stores, history, InvoiceOf
  <2>4. CASE Goto(h, next) /\ call' = [call EXCEPT ![h] = adopted]
    <3>1. /\ next \notin {"mark_reserved", "release"}
          /\ next = "execute" => record # NoSaga /\ record.state = "reserved"
      BY DEF AfterLoad
    <3>2. adopted.event = call[h].event
      BY <2>2 DEF Adopted, Call
    <3> HIDE DEF next, adopted
    <3>3. \A g \in Handlers : InvoiceOf(g)' = InvoiceOf(g)
      BY <2>4, <3>2 DEF InvoiceOf, TypeOK
    <3>4. QED
      BY <2>1, <2>2, <2>4, <3>1, <3>3
      DEF Goto, TypeOK, ReservationInv, stores, history
  <2>5. QED
    BY <1>4, <2>3, <2>4 DEF Load
<1>5. ASSUME NEW h \in Handlers, Mark(h) PROVE ReservationInv'
  <2>1. PICK m \in Marker :
          /\ pc[h] = m.at
          /\ Transition(h, m.writes)
          /\ Goto(h, m.next)
          /\ UNCHANGED <<unacked, processed, budget, provider, published, call, faults, history>>
    BY <1>5 DEF Mark
  <2>2. /\ pc[h] # "idle"
        /\ m.writes \in {"started", "reserved"} \cup TerminalStates
        /\ m.writes = "reserved" <=> m.at = "mark_reserved"
        /\ m.next \notin {"mark_reserved", "release"}
        /\ m.next = "execute" => m.at = "mark_reserved"
    BY <2>1 DEF Marker, TerminalStates
  <2>3. saga' \in [Invoices -> SagaRecord \cup {NoSaga}]
    BY <2>1, <2>2, TransitionTyped
  <2>4. \A i \in Invoices : saga'[i] # NoSaga /\ saga'[i].state = "reserved"
                            => reserves[i] > 0
    <3>1. saga'[InvoiceOf(h)].state = m.writes
      BY <1>0, <2>1, <2>2, <2>3 DEF Transition, TypeOK, SagaRecord
    <3>2. QED
      BY <1>0, <2>1, <2>2, <3>1 DEF Transition, TypeOK, ReservationInv
  <2>5. \A g \in Handlers : InvoiceOf(g)' = InvoiceOf(g)
    BY <2>1 DEF InvoiceOf
  <2>6. QED
    BY <2>1, <2>2, <2>4, <2>5 DEF Goto, TypeOK, ReservationInv, history
<1>6. ASSUME NEW h \in Handlers, Reserve(h) PROVE ReservationInv'
  <2>1. /\ pc[h] = "reserve"
        /\ UNCHANGED <<saga, provider, call, releases>>
        /\ \/ /\ reserves' = [reserves EXCEPT ![InvoiceOf(h)] = @ + 1]
              /\ Goto(h, "mark_reserved")
           \/ /\ UNCHANGED reserves
              /\ Goto(h, "mark_rejected")
    BY <1>6 DEF Reserve
  <2>2. \A i \in Invoices : reserves'[i] >= reserves[i]
    BY <1>0, <2>1 DEF TypeOK
  <2>3. \A g \in Handlers : InvoiceOf(g)' = InvoiceOf(g)
    BY <2>1 DEF InvoiceOf
  <2>4. pc'[h] = "mark_reserved" => reserves'[InvoiceOf(h)] > 0
    BY <1>0, <2>1 DEF Goto, TypeOK
  <2>5. \A i \in Invoices : reserves[i] \in Nat /\ reserves'[i] \in Nat
    BY <1>0, <2>1 DEF TypeOK
  <2>6. \A g \in Handlers : g # h => pc'[g] = pc[g]
    BY <2>1 DEF Goto, TypeOK
  <2>7. pc'[h] \in {"mark_reserved", "mark_rejected"}
    BY <2>1 DEF Goto, TypeOK
  <2>8. QED
    BY <1>0, <2>1, <2>2, <2>3, <2>4, <2>5, <2>6, <2>7 DEF ReservationInv
<1>7. ASSUME NEW h \in Handlers, Execute(h) PROVE ReservationInv'
  <2>1. /\ pc[h] = "execute"
        /\ UNCHANGED <<saga, call, reserves, releases>>
    BY <1>7 DEF Execute, history
  <2>2. \A g \in Handlers : InvoiceOf(g)' = InvoiceOf(g)
    BY <2>1 DEF InvoiceOf
  <2>3. \/ UNCHANGED provider /\ Goto(h, "mark_paid")
        \/ UNCHANGED provider /\ Goto(h, "release")
        \/ /\ \A i \in Invoices : i # InvoiceOf(h) => provider'[i] = provider[i]
           /\ Goto(h, "mark_paid")
    BY <1>7 DEF Execute, TypeOK
  <2>4. QED
    BY <1>0, <2>1, <2>2, <2>3 DEF Goto, TypeOK, ReservationInv
<1>8. ASSUME NEW h \in Handlers, Release(h) PROVE ReservationInv'
  <2>1. /\ pc[h] = "release"
        /\ UNCHANGED <<saga, provider, call, reserves>>
        /\ releases' = [releases EXCEPT ![InvoiceOf(h)] = @ + 1]
        /\ Goto(h, "mark_compensated")
    BY <1>8 DEF Release
  <2>2. \A g \in Handlers : InvoiceOf(g)' = InvoiceOf(g)
    BY <2>1 DEF InvoiceOf
  <2>3. QED
    BY <1>0, <2>1, <2>2 DEF Goto, TypeOK, ReservationInv
<1>9. ASSUME NEW h \in Handlers, Publish(h) PROVE ReservationInv'
  BY <1>9 DEF Publish, Goto, TypeOK, ReservationInv, stores, history, InvoiceOf
<1>10. ASSUME NEW h \in Handlers, Ack(h) \/ Forget(h) PROVE ReservationInv'
  BY <1>10 DEF Ack, Forget, Return, TypeOK, ReservationInv, stores, history, InvoiceOf
<1>11. CASE Seed
  BY <1>11 DEF Seed, ReservationInv, history, InvoiceOf
<1>12. ASSUME NEW h \in Handlers, Raise(h) PROVE ReservationInv'
  BY <1>12 DEF Raise, Goto, TypeOK, ReservationInv, stores, history, InvoiceOf
<1>13. ASSUME NEW h \in Handlers, RaiseInFirstTime(h) PROVE ReservationInv'
  BY <1>13 DEF RaiseInFirstTime, Return, TypeOK, ReservationInv, history, InvoiceOf
<1>14. ASSUME NEW h \in Handlers, ForgetFails(h) PROVE ReservationInv'
  BY <1>14 DEF ForgetFails, Return, TypeOK, ReservationInv, stores, history, InvoiceOf
<1>15. CASE Crash
  BY <1>15 DEF Crash, ReservationInv, stores, history, InvoiceOf
<1>16. CASE Switch
  BY <1>16 DEF Switch, ReservationInv, stores, history, InvoiceOf
<1>17. CASE UNCHANGED vars
  BY <1>17 DEF vars, ReservationInv, stores, history, InvoiceOf
<1>18. QED
  BY <1>1, <1>2, <1>3, <1>4, <1>5, <1>6, <1>7, <1>8, <1>9, <1>10, <1>11, <1>12,
     <1>13, <1>14, <1>15, <1>16, <1>17
  DEF Next, Step

LEMMA ReservationInvariant == Spec => []ReservationInv
<1>1. Init => ReservationInv
  BY DEF Init, Fresh, ReservationInv
<1>2. QED
  BY <1>1, TypeInvariant, ReservationStep, PTL DEF Spec

--------------------------------------------------------------------------------
(* As long as the cause of a decline stands (CauseStands), an invoice that is *)
(* declined is never paid and one that is not is never given anything back.   *)

\* A trigger of the invoice asks for a decline.
Declined(i) == \E e \in Declining : Payload[e].go /\ Payload[e].invoice = i

CauseInv ==
  /\ \A h \in Handlers :
       /\ pc[h] # "idle" => Payload[call[h].event].go
       /\ pc[h] = "release" /\ CauseStands(InvoiceOf(h)) => Declined(InvoiceOf(h))
  /\ \A i \in Invoices : CauseStands(i) =>
       /\ Declined(i) => provider[i] = NoPayment
       /\ ~Declined(i) => releases[i] = 0

\* What was suffered is never forgotten.
LEMMA SufferedStays ==
  ASSUME TypeInv, [Next]_vars, NEW kind \in AllFaultKinds, faults[kind] > 0
  PROVE  faults'[kind] > 0
<1>1. faults \in [AllFaultKinds -> Nat]
  BY DEF TypeInv, TypeOK
<1>2. CASE UNCHANGED faults
  BY <1>2
<1>3. ASSUME NEW k, Fault(k) PROVE faults'[kind] > 0
  BY <1>1, <1>3 DEF Fault
<1>4. QED
  BY <1>2, <1>3
  DEF Next, Step, vars, Filter, Deliver, FirstTime, Load, Mark, Reserve, Execute, Release,
      Publish, Ack, Forget, Seed, Raise, RaiseInFirstTime, ForgetFails, Crash, Switch

\* Injection is on until the process is started with another setting.
LEMMA SwitchedOn ==
  ASSUME TypeInv, ~Suffered({"switch"}) PROVE Injecting
BY DEF TypeInv, TypeOK, AllFaultKinds, Suffered, Injecting

LEMMA CauseStood ==
  ASSUME TypeInv, [Next]_vars, NEW i, CauseStands(i)' PROVE CauseStands(i)
<1>1. "switch" \in AllFaultKinds
  BY DEF AllFaultKinds
<1>2. QED
  BY <1>1, SufferedStays DEF CauseStands, Suffered

\* Steps that neither pay nor release, and reach no release.
LEMMA CauseKept ==
  ASSUME TypeInv, CauseInv, [Next]_vars,
         UNCHANGED <<provider, releases>>,
         \A h \in Handlers :
           /\ pc'[h] # "idle" => Payload[call'[h].event].go
           /\ pc'[h] = "release" => pc[h] = "release" /\ call'[h].event = call[h].event
  PROVE  CauseInv'
<1>1. \A i : CauseStands(i)' => CauseStands(i)
  BY CauseStood
<1>2. \A i : Declined(i)' = Declined(i)
  BY DEF Declined
<1>3. \A h \in Handlers : pc'[h] = "release" => InvoiceOf(h)' = InvoiceOf(h)
  BY DEF InvoiceOf
<1>4. QED
  BY <1>1, <1>2, <1>3 DEF CauseInv

LEMMA CauseStep == TypeInv /\ CauseInv /\ [Next]_vars => CauseInv'
<1> SUFFICES ASSUME TypeInv, CauseInv, [Next]_vars PROVE CauseInv'
  OBVIOUS
<1>0. \A h \in Handlers : pc[h] # "idle" =>
         InvoiceOf(h) \in Invoices /\ call[h] \in Call /\ call[h].event \in Events
  BY CallTyped DEF TypeInv
<1>t. pc \in [Handlers -> Pcs] /\ call \in [Handlers -> Call \cup {NoCall}]
  BY DEF TypeInv, TypeOK
<1>g. \A h \in Handlers : pc[h] # "idle" => Payload[call[h].event].go
  BY DEF CauseInv
<1>1. CASE \E h \in Handlers, e \in Events : Deliver(h, e)
  <2>1. PICK h \in Handlers, e \in Events : Deliver(h, e)
    BY <1>1
  <2>2. /\ UNCHANGED <<provider, releases>>
        /\ Payload[e].go /\ pc'[h] = "first_time" /\ call'[h].event = e
        /\ \A g \in Handlers : g # h => pc'[g] = pc[g] /\ call'[g] = call[g]
    BY <1>t, <2>1 DEF Deliver, Goto, stores, history
  <2>3. QED
    BY <1>g, <2>2, CauseKept
<1>2. CASE \E h \in Handlers : Load(h)
  <2>1. PICK h \in Handlers : Load(h)
    BY <1>2
  <2> DEFINE adopted == Adopted(call[h], saga[InvoiceOf(h)])
             next    == AfterLoad(adopted.event, saga[InvoiceOf(h)], adopted.amount)
  <2>2. adopted.event = call[h].event /\ next # "release"
    BY <1>0, <2>1 DEF Load, Adopted, Call, AfterLoad
  <2> HIDE DEF adopted, next
  <2>3. /\ UNCHANGED <<provider, releases>>
        /\ pc[h] = "load" /\ pc'[h] # "release" /\ call'[h].event = call[h].event
        /\ \A g \in Handlers : g # h => pc'[g] = pc[g] /\ call'[g] = call[g]
    BY <1>t, <2>1, <2>2 DEF Load, Goto, stores, history, adopted, next
  <2>4. QED
    BY <1>g, <2>3, CauseKept
<1>3. CASE \E h \in Handlers : Execute(h)
  <2>1. PICK h \in Handlers : Execute(h)
    BY <1>3
  <2>2. PICK i \in Invoices : i = InvoiceOf(h)
    BY <1>0, <2>1 DEF Execute
  <2>3. /\ pc[h] = "execute" /\ UNCHANGED <<releases, call, faults>>
        /\ \A g \in Handlers : g # h => pc'[g] = pc[g]
        /\ \A j \in Invoices : j # i => provider'[j] = provider[j]
        /\ pc'[h] = "release" => Injecting /\ call[h].event \in Declining
        /\ provider'[i] # provider[i] => ~(Injecting /\ call[h].event \in Declining)
    BY <1>t, <2>1, <2>2 DEF Execute, Goto, history, TypeInv, TypeOK
  <2>4. /\ call[h].event \in Events /\ Payload[call[h].event].go
        /\ Payload[call[h].event].invoice = i
    BY <1>0, <1>g, <2>2, <2>3 DEF InvoiceOf
  <2>5. CauseStands(i) => Injecting /\ (Declined(i) <=> call[h].event \in Declining)
    BY <2>4, SwitchedOn, DecliningAssumption DEF CauseStands, Declined
  <2>6. \A j : CauseStands(j)' = CauseStands(j) /\ Declined(j)' = Declined(j)
    BY <2>3 DEF CauseStands, Declined, Suffered
  <2>7. \A g \in Handlers : InvoiceOf(g)' = InvoiceOf(g)
    BY <2>3 DEF InvoiceOf
  <2>8. \A j \in Invoices : CauseStands(j)' =>
          (Declined(j)' => provider'[j] = NoPayment) /\ (~Declined(j)' => releases'[j] = 0)
    BY <2>3, <2>5, <2>6 DEF CauseInv
  <2>9. \A g \in Handlers :
          /\ pc'[g] # "idle" => Payload[call'[g].event].go
          /\ pc'[g] = "release" /\ CauseStands(InvoiceOf(g))' => Declined(InvoiceOf(g))'
    BY <2>2, <2>3, <2>4, <2>5, <2>6, <2>7 DEF CauseInv
  <2>10. QED
    BY <2>8, <2>9 DEF CauseInv
<1>4. CASE \E h \in Handlers : Release(h)
  <2>1. PICK h \in Handlers : Release(h)
    BY <1>4
  <2>2. PICK i \in Invoices : i = InvoiceOf(h)
    BY <1>0, <2>1 DEF Release
  <2>3. /\ pc[h] = "release" /\ pc'[h] = "mark_compensated"
        /\ UNCHANGED <<provider, call, faults>>
        /\ \A g \in Handlers : g # h => pc'[g] = pc[g]
        /\ \A j \in Invoices : j # i => releases'[j] = releases[j]
    BY <1>t, <2>1, <2>2 DEF Release, Goto, TypeInv, TypeOK
  <2>4. \A j : CauseStands(j)' = CauseStands(j) /\ Declined(j)' = Declined(j)
    BY <2>3 DEF CauseStands, Declined, Suffered
  <2>5. \A g \in Handlers : InvoiceOf(g)' = InvoiceOf(g)
    BY <2>3 DEF InvoiceOf
  <2>6. CauseStands(i) => Declined(i)
    BY <2>2, <2>3 DEF CauseInv
  <2>7. \A j \in Invoices : CauseStands(j)' =>
          (Declined(j)' => provider'[j] = NoPayment) /\ (~Declined(j)' => releases'[j] = 0)
    BY <2>3, <2>4, <2>6 DEF CauseInv
  <2>8. \A g \in Handlers :
          /\ pc'[g] # "idle" => Payload[call'[g].event].go
          /\ pc'[g] = "release" /\ CauseStands(InvoiceOf(g))' => Declined(InvoiceOf(g))'
    BY <2>3, <2>4, <2>5 DEF CauseInv
  <2>9. QED
    BY <2>7, <2>8 DEF CauseInv
<1>5. CASE \E h \in Handlers : FirstTime(h) \/ Mark(h) \/ Reserve(h) \/ Publish(h) \/ Raise(h)
  <2>1. PICK h \in Handlers :
          FirstTime(h) \/ Mark(h) \/ Reserve(h) \/ Publish(h) \/ Raise(h)
    BY <1>5
  <2>2. /\ UNCHANGED <<provider, releases, call>>
        /\ pc[h] # "idle" /\ pc'[h] # "release"
        /\ \A g \in Handlers : g # h => pc'[g] = pc[g]
    BY <1>t, <2>1
    DEF FirstTime, Mark, Marker, Reserve, Publish, Raise, BodyPcs, Goto, stores, history
  <2>3. QED
    BY <1>g, <2>2, CauseKept
<1>6. CASE \/ \E h \in Handlers : Ack(h) \/ Forget(h) \/ RaiseInFirstTime(h) \/ ForgetFails(h)
           \/ Crash
           \/ (\E e \in Events : Filter(e)) \/ Seed \/ UNCHANGED vars
  <2>1. /\ UNCHANGED <<provider, releases>>
        /\ \A g \in Handlers : pc'[g] = "idle" \/ (pc'[g] = pc[g] /\ call'[g] = call[g])
    BY <1>t, <1>6
    DEF Ack, Forget, RaiseInFirstTime, ForgetFails, Crash, Return, Filter, Seed, vars, stores, history
  <2>2. QED
    BY <1>g, <2>1, CauseKept
<1>7. CASE Switch
  <2>1. UNCHANGED <<provider, releases, pc, call>> /\ Suffered({"switch"})'
    BY <1>7 DEF Switch, Fault, stores, history, Suffered, TypeInv, TypeOK, AllFaultKinds
  <2>2. \A i : ~CauseStands(i)'
    BY <2>1 DEF CauseStands
  <2>3. QED
    BY <1>g, <2>1, <2>2 DEF CauseInv
<1>8. QED
  BY <1>1, <1>2, <1>3, <1>4, <1>5, <1>6, <1>7 DEF Next, Step

LEMMA CauseInvariant == Spec => []CauseInv
<1>1. Init => CauseInv
  BY DEF Init, Fresh, CauseInv
<1>2. QED
  BY <1>1, TypeInvariant, CauseStep, PTL DEF Spec

--------------------------------------------------------------------------------
(* One delivery per invoice at a time: what the record says, what the       *)
(* provider did, what was published and where the handler is all agree.     *)

StateOf(i) == IF saga[i] = NoSaga THEN "none" ELSE saga[i].state

\* The handler's locals are those of the record.
Agrees(h) ==
  LET r == saga[InvoiceOf(h)]
  IN  r # NoSaga /\ r.dept = call[h].dept /\ r.amount = call[h].amount

Unreported(i) == \A r \in published : r.invoice # i

HandlerInv(h) ==
  LET i == InvoiceOf(h) IN
  /\ pc[h] # "idle" => Payload[call[h].event].go
  /\ pc[h] \in {"first_time", "load"} =>
       /\ call[h].dept = Payload[call[h].event].dept
       /\ call[h].amount = Payload[call[h].event].amount
  /\ pc[h] = "mark_refused" => StateOf(i) \in {"none", "started"}
  /\ pc[h] = "mark_started" =>
       StateOf(i) = "none" /\ Authorised(i, call[h].dept, call[h].amount)
  /\ pc[h] \in {"reserve", "mark_rejected", "mark_reserved"} =>
       StateOf(i) = "started" /\ Agrees(h)
  /\ pc[h] \in {"execute", "release", "mark_compensated", "mark_paid"} =>
       StateOf(i) = "reserved" /\ Agrees(h)
  /\ pc[h] \in {"release", "mark_compensated"} => provider[i] = NoPayment
  /\ pc[h] = "mark_paid" => provider[i] # NoPayment
  /\ pc[h] = "publish_failed" =>
       /\ StateOf(i) \in {"compensated", "rejected_insufficient_budget"}
       /\ Unreported(i)
  /\ pc[h] = "publish_compensated" => StateOf(i) = "compensated" /\ Unreported(i)
  /\ pc[h] = "publish_completed" => StateOf(i) = "paid" /\ Unreported(i)

InvoiceInv(i) ==
  /\ StateOf(i) \in {"none", "started", "compensated", "rejected_insufficient_budget"}
       => provider[i] = NoPayment
  /\ StateOf(i) = "paid" => provider[i] # NoPayment
  /\ StateOf(i) \in {"started", "reserved"} =>
       saga[i].amount > 0 /\ Authorised(i, saga[i].dept, saga[i].amount)
  /\ StateOf(i) \in {"none", "started", "reserved"} => Unreported(i)
  /\ provider[i] # NoPayment =>
       /\ saga[i] # NoSaga
       /\ provider[i] = [dept |-> saga[i].dept, amount |-> saga[i].amount]
       /\ Authorised(i, provider[i].dept, provider[i].amount)
  /\ \A r \in published : r.invoice = i =>
       (r.topic = "payment-completed" <=> StateOf(i) = "paid")
  /\ \A r1, r2 \in published : r1.invoice = i /\ r2.invoice = i => r1 = r2

OneAtATime ==
  \A g, h \in Handlers :
    pc[g] # "idle" /\ pc[h] # "idle" /\ InvoiceOf(g) = InvoiceOf(h) => g = h

SequentialInv ==
  /\ OneAtATime
  /\ \A h \in Handlers : HandlerInv(h)
  /\ \A i \in Invoices : InvoiceInv(i)

\* A step of handler h that touches its own invoice only preserves the whole
\* invariant as soon as it preserves the parts about h and about that invoice.
LEMMA OwnInvoiceOnly ==
  ASSUME TypeOK, SequentialInv, NEW h \in Handlers, NEW i \in Invoices,
         pc[h] # "idle", InvoiceOf(h) = i,
         \A g \in Handlers : g # h => pc'[g] = pc[g] /\ call'[g] = call[g],
         pc'[h] # "idle" => call'[h].event = call[h].event,
         \A j \in Invoices : j # i => saga'[j] = saga[j] /\ provider'[j] = provider[j],
         \A r \in published' : r.invoice # i => r \in published,
         published \subseteq published',
         HandlerInv(h)', InvoiceInv(i)'
  PROVE  SequentialInv'
<1>1. \A g \in Handlers : pc'[g] # "idle" => InvoiceOf(g)' = InvoiceOf(g) /\ pc[g] # "idle"
  BY DEF InvoiceOf
<1>2. OneAtATime'
  BY <1>1 DEF SequentialInv, OneAtATime
<1>3. ASSUME NEW g \in Handlers, g # h PROVE HandlerInv(g)'
  <2>1. CASE pc[g] = "idle"
    BY <2>1, <1>3 DEF HandlerInv
  <2>2. CASE pc[g] # "idle"
    <3> DEFINE j == InvoiceOf(g)
    <3>1. j # i /\ j \in Invoices
      BY <1>3, <2>2, CallTyped DEF SequentialInv, OneAtATime
    <3>2. /\ pc'[g] = pc[g]
          /\ call'[g] = call[g]
          /\ InvoiceOf(g)' = j
          /\ saga'[j] = saga[j]
          /\ provider'[j] = provider[j]
          /\ Unreported(j) <=> Unreported(j)'
      BY <1>1, <1>3, <2>2, <3>1 DEF Unreported
    <3>3. HandlerInv(g)
      BY DEF SequentialInv
    <3>4. QED
      BY <3>2, <3>3 DEF HandlerInv, StateOf, Agrees, Unreported
  <2>3. QED
    BY <2>1, <2>2
<1>4. ASSUME NEW j \in Invoices, j # i PROVE InvoiceInv(j)'
  <2>1. /\ saga'[j] = saga[j]
        /\ provider'[j] = provider[j]
        /\ \A r \in published' : r.invoice = j => r \in published
        /\ InvoiceInv(j)
    BY <1>4 DEF SequentialInv
  <2>2. QED
    BY <2>1 DEF InvoiceInv, StateOf, Unreported, Authorised, AboveCeiling
<1>5. QED
  BY <1>2, <1>3, <1>4 DEF SequentialInv

\* Deliveries that overlapped are never forgotten.
LEMMA SequentialBefore == TypeInv /\ [Next]_vars /\ Sequential' => Sequential
<1> SUFFICES ASSUME TypeInv, [Next]_vars, ~Sequential PROVE ~Sequential'
  OBVIOUS
<1>1. faults \in [AllFaultKinds -> Nat] /\ "twice" \in AllFaultKinds /\ faults["twice"] > 0
  BY DEF TypeInv, TypeOK, Sequential, Suffered, AllFaultKinds
<1>2. CASE UNCHANGED faults
  BY <1>1, <1>2 DEF Sequential, Suffered
<1>3. ASSUME NEW kind, Fault(kind) PROVE ~Sequential'
  <2>1. faults' = [faults EXCEPT ![kind] = @ + 1]
    BY <1>3 DEF Fault
  <2>2. faults'["twice"] > 0
    BY <1>1, <2>1
  <2> QED BY <2>2 DEF Sequential, Suffered
<1> QED
  BY <1>2, <1>3
  DEF Next, Step, vars, Filter, Deliver, FirstTime, Load, Mark, Reserve, Execute, Release,
      Publish, Ack, Forget, Seed, Raise, RaiseInFirstTime, ForgetFails, Crash, Switch

\* With one delivery per invoice at a time every step preserves the invariant.
LEMMA SequentialStep ==
  TypeInv /\ SequentialInv /\ [Next]_vars /\ Sequential' => SequentialInv'
<1> SUFFICES ASSUME TypeInv, SequentialInv, [Next]_vars, Sequential' PROVE SequentialInv'
  OBVIOUS
<1> USE DEF TypeInv
<1>0. \A h \in Handlers : pc[h] # "idle" => InvoiceOf(h) \in Invoices
  BY CallTyped
\* Steps after which the handler is still there, with saga, provider and
\* reports untouched and no obligation of its own.
<1>a. ASSUME NEW h \in Handlers, pc[h] # "idle",
             UNCHANGED <<saga, provider, published>>,
             \A g \in Handlers : g # h => pc'[g] = pc[g] /\ call'[g] = call[g],
             pc'[h] # "idle" => call'[h].event = call[h].event,
             HandlerInv(h)'
      PROVE  SequentialInv'
  <2>1. PICK i \in Invoices : InvoiceOf(h) = i
    BY <1>0, <1>a
  <2>2. ASSUME NEW j \in Invoices, InvoiceInv(j) PROVE InvoiceInv(j)'
    BY <1>a, <2>2 DEF InvoiceInv, StateOf, Unreported, Authorised, AboveCeiling
  <2>3. InvoiceInv(i)'
    BY <2>2 DEF SequentialInv
  <2>4. QED
    BY <1>a, <2>1, <2>3, OwnInvoiceOnly
\* Steps that leave everything the invariant speaks of alone.
<1>b. ASSUME UNCHANGED <<saga, provider, published>>,
             \A g \in Handlers : pc'[g] = "idle"
                                \/ (pc'[g] = pc[g] /\ call'[g] = call[g])
      PROVE  SequentialInv'
  <2>1. ASSUME NEW j \in Invoices, InvoiceInv(j) PROVE InvoiceInv(j)'
    BY <1>b, <2>1 DEF InvoiceInv, StateOf, Unreported, Authorised, AboveCeiling
  <2>2. ASSUME NEW g \in Handlers PROVE HandlerInv(g)'
    <3>1. CASE pc'[g] = "idle"
      BY <3>1 DEF HandlerInv
    <3>2. CASE pc'[g] = pc[g] /\ call'[g] = call[g]
      <4>1. HandlerInv(g)
        BY DEF SequentialInv
      <4>2. QED
        BY <1>b, <3>2, <4>1
        DEF HandlerInv, StateOf, Agrees, Unreported, Authorised, AboveCeiling, InvoiceOf
    <3>3. QED
      BY <1>b, <3>1, <3>2
  <2>3. OneAtATime'
    BY <1>b DEF SequentialInv, OneAtATime, InvoiceOf
  <2>4. QED
    BY <2>1, <2>2, <2>3 DEF SequentialInv
<1>1. ASSUME NEW e \in Events, Filter(e) PROVE SequentialInv'
  BY <1>1, <1>b DEF Filter, stores
<1>2. ASSUME NEW h \in Handlers, NEW e \in Events, Deliver(h, e) PROVE SequentialInv'
  <2>0. ~Busy(e)
    <3>1. Fault("twice") => faults'["twice"] > 0
      BY DEF Fault, TypeOK, AllFaultKinds
    <3>2. QED
      BY <1>2, <3>1 DEF Deliver, Sequential, Suffered
  <2>1. /\ UNCHANGED <<saga, provider, published>>
        /\ pc'[h] = "first_time"
        /\ call'[h] = [event |-> e, dept |-> Payload[e].dept, amount |-> Payload[e].amount]
        /\ \A g \in Handlers : g # h => pc'[g] = pc[g] /\ call'[g] = call[g]
        /\ ~Busy(e)
        /\ Payload[e].go
    BY <1>2, <2>0 DEF Deliver, Goto, TypeOK, stores
  <2>2. OneAtATime'
    <3>1. \A g \in Handlers : g # h /\ pc'[g] # "idle" => InvoiceOf(g)' # InvoiceOf(h)'
      BY <2>1 DEF Busy, InvoiceOf
    <3>2. QED
      BY <2>1, <3>1 DEF SequentialInv, OneAtATime, InvoiceOf
  <2>3. ASSUME NEW j \in Invoices, InvoiceInv(j) PROVE InvoiceInv(j)'
    BY <2>1, <2>3 DEF InvoiceInv, StateOf, Unreported, Authorised, AboveCeiling
  <2>4. ASSUME NEW g \in Handlers PROVE HandlerInv(g)'
    <3>1. CASE g = h
      BY <2>1, <3>1 DEF HandlerInv
    <3>2. CASE g # h
      <4>1. HandlerInv(g)
        BY DEF SequentialInv
      <4>2. QED
        BY <2>1, <3>2, <4>1
        DEF HandlerInv, StateOf, Agrees, Unreported, Authorised, AboveCeiling, InvoiceOf
    <3>3. QED
      BY <3>1, <3>2
  <2>5. QED
    BY <2>2, <2>3, <2>4 DEF SequentialInv
<1>3. ASSUME NEW h \in Handlers, FirstTime(h) PROVE SequentialInv'
  <2>1. /\ pc[h] = "first_time"
        /\ pc'[h] \in {"ack", "load"}
        /\ UNCHANGED <<saga, provider, published, call>>
        /\ \A g \in Handlers : g # h => pc'[g] = pc[g]
    BY <1>3 DEF FirstTime, Goto, TypeOK
  <2>2. HandlerInv(h)'
    BY <2>1 DEF HandlerInv, SequentialInv
  <2>3. QED
    BY <1>a, <2>1, <2>2
<1>4. ASSUME NEW h \in Handlers, Load(h) PROVE SequentialInv'
  <2>0. PICK i \in Invoices : InvoiceOf(h) = i
    BY <1>0, <1>4 DEF Load
  <2> DEFINE record  == saga[i]
             adopted == Adopted(call[h], record)
             next    == AfterLoad(adopted.event, record, adopted.amount)
  <2>1. /\ pc[h] = "load"
        /\ UNCHANGED <<saga, provider, published>>
        /\ call[h] \in Call
        /\ InvoiceInv(i)
        /\ HandlerInv(h)
    BY <1>4, CallTyped DEF Load, stores, SequentialInv
  <2>2. CASE Goto(h, "ack") /\ UNCHANGED call
    <3>1. HandlerInv(h)'
      BY <2>1, <2>2 DEF Goto, TypeOK, HandlerInv
    <3>2. QED
      BY <1>a, <2>1, <2>2, <3>1 DEF Goto, TypeOK
  <2>3. CASE /\ ~IsTerminal(record)
             /\ Goto(h, next)
             /\ call' = [call EXCEPT ![h] = adopted]
    <3>1. PICK c \in Call :
            /\ c = adopted
            /\ c.event = call[h].event
            /\ record = NoSaga => (c.dept = call[h].dept /\ c.amount = call[h].amount)
            /\ record # NoSaga => (c.dept = record.dept /\ c.amount = record.amount)
      <4>1. record # NoSaga => record \in SagaRecord
        BY DEF TypeOK
      <4>2. /\ adopted \in Call
            /\ adopted.event = call[h].event
            /\ record = NoSaga => (adopted.dept = call[h].dept /\ adopted.amount = call[h].amount)
            /\ record # NoSaga => (adopted.dept = record.dept /\ adopted.amount = record.amount)
        <5> HIDE DEF record
        <5>1. QED
          BY <2>1, <4>1 DEF Adopted, Call, SagaRecord
      <4> HIDE DEF adopted, record
      <4>3. QED
        BY <4>2
    <3>2. PICK n : n = next
      OBVIOUS
    <3>3. /\ pc'[h] = n
          /\ call'[h] = c
          /\ InvoiceOf(h)' = i
          /\ \A g \in Handlers : g # h => pc'[g] = pc[g] /\ call'[g] = call[g]
      BY <2>0, <2>1, <2>3, <3>1, <3>2 DEF Goto, TypeOK, InvoiceOf
    <3>4. /\ record = NoSaga => StateOf(i) = "none"
          /\ record # NoSaga => ( /\ record.state = StateOf(i)
                                 /\ StateOf(i) \in {"started", "reserved"}
                                 /\ c.amount > 0 )
      BY <2>1, <2>3, <3>1 DEF IsTerminal, StateOf, TypeOK, SagaRecord, InvoiceInv
    <3>5. /\ n \in {"mark_refused", "mark_started", "reserve", "execute"}
          /\ n = "mark_refused" => StateOf(i) \in {"none", "started"}
          /\ n = "mark_started" => StateOf(i) = "none" /\ ~AboveCeiling(c.event, c.amount)
          /\ n = "reserve" => StateOf(i) = "started"
          /\ n = "execute" => StateOf(i) = "reserved"
      <4> HIDE DEF record
      <4>1. n = AfterLoad(c.event, record, c.amount)
        BY <3>1, <3>2
      <4>2. c.amount \in Int
        BY DEF Call
      <4>3. CASE record = NoSaga
        BY <3>4, <4>1, <4>3 DEF AfterLoad
      <4>4. CASE record # NoSaga
        BY <3>4, <4>1, <4>2, <4>4 DEF AfterLoad
      <4>5. QED
        BY <4>3, <4>4
    <3>6. Payload[c.event].go /\ Payload[c.event].invoice = i /\ c.event \in Events
      BY <2>0, <2>1, <3>1 DEF HandlerInv, InvoiceOf, Call
    <3>n. record = NoSaga => /\ c.dept = Payload[c.event].dept
                             /\ c.amount = Payload[c.event].amount
      BY <2>1, <3>1 DEF HandlerInv
    <3>7. n = "mark_started" => Authorised(i, c.dept, c.amount)'
      BY <3>4, <3>5, <3>6, <3>n DEF Authorised, AboveCeiling
    <3>8. n \in {"reserve", "execute"} => Agrees(h)'
      BY <2>1, <3>1, <3>3, <3>4, <3>5 DEF Agrees
    <3>9. StateOf(i)' = StateOf(i)
      BY <2>1 DEF StateOf
    <3> HIDE DEF next, adopted, record
    <3>10. HandlerInv(h)'
      BY <3>3, <3>5, <3>6, <3>7, <3>8, <3>9 DEF HandlerInv
    <3>11. QED
      BY <1>a, <2>1, <3>1, <3>3, <3>10
  <2>4. QED
    BY <1>4, <2>0, <2>2, <2>3 DEF Load
<1>5. ASSUME NEW h \in Handlers, Mark(h) PROVE SequentialInv'
  <2>1. PICK m \in Marker :
          /\ pc[h] = m.at
          /\ Transition(h, m.writes)
          /\ Goto(h, m.next)
          /\ UNCHANGED <<unacked, processed, budget, provider, published, call, faults, history>>
    BY <1>5 DEF Mark
  <2>2. /\ pc[h] # "idle"
        /\ m.writes \in {"started", "reserved"} \cup TerminalStates
        /\ m.next # "idle"
    BY <2>1 DEF Marker, TerminalStates
  <2>i. PICK i \in Invoices : InvoiceOf(h) = i
    BY <1>0, <2>2
  <2>3. /\ call[h].dept \in Depts
        /\ call[h].amount \in Int
        /\ HandlerInv(h)
        /\ InvoiceInv(i)
    BY <2>2, CallTyped DEF SequentialInv
  <2>4. saga' \in [Invoices -> SagaRecord \cup {NoSaga}]
    BY <2>1, <2>2, TransitionTyped
  <2>5. /\ pc'[h] = m.next
        /\ \A g \in Handlers : g # h => pc'[g] = pc[g] /\ call'[g] = call[g]
        /\ call'[h] = call[h]
        /\ InvoiceOf(h)' = i
        /\ \A j \in Invoices : j # i => saga'[j] = saga[j] /\ provider'[j] = provider[j]
    BY <2>1, <2>i DEF Goto, TypeOK, Transition, InvoiceOf
  <2>6. /\ saga'[i] # NoSaga
        /\ StateOf(i)' = m.writes
        /\ saga[i] = NoSaga =>
             saga'[i].dept = call[h].dept /\ saga'[i].amount = call[h].amount
        /\ saga[i] # NoSaga =>
             saga'[i].dept = saga[i].dept /\ saga'[i].amount = saga[i].amount
    <3>1. saga'[i] = IF saga[i] = NoSaga
                     THEN [state |-> m.writes, dept |-> call[h].dept, amount |-> call[h].amount]
                     ELSE [saga[i] EXCEPT !.state = m.writes]
      BY <2>1, <2>i DEF Transition, TypeOK
    <3>2. saga'[i] # NoSaga
      <4>1. saga'[i] \in SagaRecord
        BY <2>2, <2>3, <3>1 DEF TypeOK, SagaRecord
      <4>2. QED
        BY <4>1, SentinelAssumption
    <3>3. saga[i] # NoSaga => saga[i] \in SagaRecord
      BY <2>3 DEF TypeOK
    <3>4. QED
      BY <3>1, <3>2, <3>3 DEF StateOf, SagaRecord
  <2>7. HandlerInv(h)' /\ InvoiceInv(i)'
    <3>1. /\ UNCHANGED <<provider, published>>
          /\ Unreported(i)' <=> Unreported(i)
          /\ \A d, a : Authorised(i, d, a)' <=> Authorised(i, d, a)
      BY <2>1 DEF Unreported, Authorised, AboveCeiling
    <3>2. pc[h] = "mark_started" => call[h].amount > 0
      BY DEF PositiveAmounts, MoneyPcs
    <3>3. Agrees(h)' <=> (saga[i] = NoSaga \/ Agrees(h))
      BY <2>i, <2>5, <2>6 DEF Agrees
    <3>4. pc[h] = m.at
      BY <2>1
    <3>n. (StateOf(i) = "none") <=> (saga[i] = NoSaga)
      BY DEF StateOf, TypeOK, SagaRecord, TerminalStates
    <3>5. CASE m.at = "mark_refused"
      <4>1. m.writes = "compensated" /\ m.next = "publish_failed"
        BY <3>5 DEF Marker
      <4>2. QED
        BY <2>i, <2>3, <2>5, <2>6, <3>1, <3>2, <3>3, <3>4, <3>5, <4>1
        DEF HandlerInv, InvoiceInv, StateOf, Agrees
    <3>6. CASE m.at = "mark_started"
      <4>1. m.writes = "started" /\ m.next = "reserve"
        BY <3>6 DEF Marker
      <4>2. HandlerInv(h)'
        BY <2>i, <2>3, <2>5, <2>6, <3>1, <3>3, <3>4, <3>n, <3>6, <4>1
        DEF HandlerInv, InvoiceInv
      <4>3. InvoiceInv(i)'
        BY <2>i, <2>3, <2>5, <2>6, <3>1, <3>2, <3>4, <3>n, <3>6, <4>1
        DEF HandlerInv, InvoiceInv, Authorised, AboveCeiling
      <4>4. QED
        BY <4>2, <4>3
    <3>7. CASE m.at = "mark_reserved"
      <4>1. m.writes = "reserved" /\ m.next = "execute"
        BY <3>7 DEF Marker
      <4>2. QED
        BY <2>i, <2>3, <2>5, <2>6, <3>1, <3>2, <3>3, <3>4, <3>7, <4>1
        DEF HandlerInv, InvoiceInv, StateOf, Agrees
    <3>8. CASE m.at = "mark_compensated"
      <4>1. m.writes = "compensated" /\ m.next = "publish_compensated"
        BY <3>8 DEF Marker
      <4>2. QED
        BY <2>i, <2>3, <2>5, <2>6, <3>1, <3>2, <3>3, <3>4, <3>8, <4>1
        DEF HandlerInv, InvoiceInv, StateOf, Agrees
    <3>9. CASE m.at = "mark_paid"
      <4>1. m.writes = "paid" /\ m.next = "publish_completed"
        BY <3>9 DEF Marker
      <4>2. HandlerInv(h)'
        BY <2>i, <2>3, <2>5, <2>6, <3>1, <3>3, <3>4, <3>n, <3>9, <4>1
        DEF HandlerInv, InvoiceInv
      <4>p. /\ saga[i] # NoSaga
            /\ StateOf(i) = "reserved"
            /\ provider[i] # NoPayment
            /\ Unreported(i)
            /\ provider[i] = [dept |-> saga[i].dept, amount |-> saga[i].amount]
            /\ Authorised(i, provider[i].dept, provider[i].amount)
        BY <2>i, <2>3, <3>4, <3>n, <3>9 DEF HandlerInv, InvoiceInv
      <4>q. /\ provider'[i] # NoPayment
            /\ provider'[i] = [dept |-> saga'[i].dept, amount |-> saga'[i].amount]
            /\ StateOf(i)' = "paid"
            /\ Unreported(i)'
        BY <2>6, <3>1, <4>1, <4>p
      <4>r. Authorised(i, provider[i].dept, provider[i].amount)'
        BY <3>1, <4>p DEF Authorised, AboveCeiling
      <4>3. InvoiceInv(i)'
        BY <2>6, <4>q, <4>r DEF InvoiceInv, Unreported
      <4>4. QED
        BY <4>2, <4>3
    <3>10. CASE m.at = "mark_rejected"
      <4>1. m.writes = "rejected_insufficient_budget" /\ m.next = "publish_failed"
        BY <3>10 DEF Marker
      <4>2. QED
        BY <2>i, <2>3, <2>5, <2>6, <3>1, <3>2, <3>3, <3>4, <3>10, <4>1
        DEF HandlerInv, InvoiceInv, StateOf, Agrees
    <3>11. QED
      BY <2>1, <3>5, <3>6, <3>7, <3>8, <3>9, <3>10 DEF Marker
  <2>8. QED
    BY <2>1, <2>2, <2>i, <2>5, <2>7, OwnInvoiceOnly
<1>6. ASSUME NEW h \in Handlers, Reserve(h) PROVE SequentialInv'
  <2>1. /\ pc[h] = "reserve"
        /\ pc'[h] \in {"mark_reserved", "mark_rejected"}
        /\ UNCHANGED <<saga, provider, published, call>>
        /\ \A g \in Handlers : g # h => pc'[g] = pc[g]
        /\ HandlerInv(h)
    BY <1>6 DEF Reserve, Goto, TypeOK, SequentialInv
  <2>2. HandlerInv(h)'
    BY <2>1 DEF HandlerInv, StateOf, Agrees, InvoiceOf
  <2>3. QED
    BY <1>a, <2>1, <2>2
<1>7. ASSUME NEW h \in Handlers, Execute(h) PROVE SequentialInv'
  <2>0. PICK i \in Invoices : InvoiceOf(h) = i
    BY <1>0, <1>7 DEF Execute
  <2>1. /\ pc[h] = "execute"
        /\ UNCHANGED <<saga, published, call>>
        /\ HandlerInv(h)
        /\ InvoiceInv(i)
    BY <1>7 DEF Execute, SequentialInv
  <2>2. /\ InvoiceOf(h)' = i
        /\ StateOf(i)' = StateOf(i)
        /\ StateOf(i) = "reserved"
        /\ saga[i] # NoSaga
        /\ saga[i].dept = call[h].dept /\ saga[i].amount = call[h].amount
        /\ Agrees(h)'
        /\ Authorised(i, saga[i].dept, saga[i].amount)
        /\ Unreported(i)
        /\ Unreported(i)'
    BY <2>0, <2>1 DEF HandlerInv, InvoiceInv, InvoiceOf, StateOf, Agrees, Unreported
  <2>3. /\ \A g \in Handlers : g # h => pc'[g] = pc[g]
        /\ \A j \in Invoices : j # i => provider'[j] = provider[j]
        /\ \/ pc'[h] = "mark_paid" /\ provider'[i] # NoPayment
              /\ (provider'[i] = provider[i] \/ provider'[i] =
                    [dept |-> call[h].dept, amount |-> call[h].amount])
           \/ pc'[h] = "release" /\ provider'[i] = NoPayment
    <3>1. [dept |-> call[h].dept, amount |-> call[h].amount] \in Payment
      BY <2>1, CallTyped DEF Payment
    <3>2. [dept |-> call[h].dept, amount |-> call[h].amount] # NoPayment
      BY <3>1, SentinelAssumption
    <3>3. QED
      BY <1>7, <2>0, <3>2 DEF Execute, Goto, TypeOK
  <2>4. HandlerInv(h)'
    BY <2>1, <2>2, <2>3 DEF HandlerInv
  <2>5. provider'[i] # NoPayment =>
          /\ saga'[i] # NoSaga
          /\ provider'[i] = [dept |-> saga'[i].dept, amount |-> saga'[i].amount]
    BY <2>1, <2>2, <2>3 DEF InvoiceInv
  <2>6. /\ Authorised(i, saga[i].dept, saga[i].amount)'
        /\ provider'[i] # NoPayment => Authorised(i, provider[i].dept, provider[i].amount)'
    BY <2>1, <2>2, <2>5 DEF Authorised, AboveCeiling
  <2>7. InvoiceInv(i)'
    BY <2>1, <2>2, <2>5, <2>6 DEF InvoiceInv
  <2>8. QED
    BY <2>0, <2>1, <2>3, <2>4, <2>7, OwnInvoiceOnly
<1>8. ASSUME NEW h \in Handlers, Release(h) PROVE SequentialInv'
  <2>1. /\ pc[h] = "release"
        /\ pc'[h] = "mark_compensated"
        /\ UNCHANGED <<saga, provider, published, call>>
        /\ \A g \in Handlers : g # h => pc'[g] = pc[g]
        /\ HandlerInv(h)
    BY <1>8 DEF Release, Goto, TypeOK, SequentialInv
  <2>2. HandlerInv(h)'
    BY <2>1 DEF HandlerInv, StateOf, Agrees, InvoiceOf
  <2>3. QED
    BY <1>a, <2>1, <2>2
<1>9. ASSUME NEW h \in Handlers, Publish(h) PROVE SequentialInv'
  <2>0. PICK i \in Invoices : InvoiceOf(h) = i
    BY <1>0, <1>9 DEF Publish
  <2> DEFINE topic == IF pc[h] = "publish_completed"
                      THEN "payment-completed" ELSE "payment-failed"
  <2>1. PICK r : /\ r.invoice = i
                 /\ r.topic = topic
                 /\ published' = published \cup {r}
    <3> DEFINE flag   == pc[h] = "publish_compensated"
               report == [topic       |-> topic,
                          invoice     |-> InvoiceOf(h),
                          compensated |-> flag,
                          trigger     |-> call[h].event]
    <3>1. published' = published \cup {report}
      BY <1>9 DEF Publish
    <3> HIDE DEF topic, flag
    <3>2. report.invoice = i /\ report.topic = topic
      BY <2>0
    <3> HIDE DEF report
    <3>3. QED
      BY <3>1, <3>2
  <2>2. /\ pc[h] \in {"publish_failed", "publish_compensated", "publish_completed"}
        /\ pc'[h] = "published"
        /\ UNCHANGED <<saga, provider, call>>
        /\ \A g \in Handlers : g # h => pc'[g] = pc[g]
        /\ HandlerInv(h)
        /\ InvoiceInv(i)
    BY <1>9 DEF Publish, stores, Goto, TypeOK, SequentialInv
  <2>3. HandlerInv(h)'
    BY <2>2 DEF HandlerInv
  <2>4. /\ StateOf(i)' = StateOf(i)
        /\ StateOf(i) \in TerminalStates
        /\ (topic = "payment-completed") <=> (StateOf(i) = "paid")
        /\ Unreported(i)
    BY <2>0, <2>2 DEF HandlerInv, StateOf, TerminalStates
  <2>5. /\ \A s \in published' : s.invoice = i => s = r
        /\ Authorised(i, provider[i].dept, provider[i].amount)' <=> Authorised(i, provider[i].dept, provider[i].amount)
    BY <2>1, <2>2, <2>4 DEF Unreported, Authorised, AboveCeiling
  <2> HIDE DEF topic
  <2>6. InvoiceInv(i)'
    <3>1. provider[i] # NoPayment => Authorised(i, provider[i].dept, provider[i].amount)'
      BY <2>2, <2>5 DEF InvoiceInv
    <3>2. \A s \in published' : s.invoice = i =>
            (s.topic = "payment-completed" <=> StateOf(i)' = "paid")
      BY <2>1, <2>4, <2>5
    <3>3. \A r1, r2 \in published' : r1.invoice = i /\ r2.invoice = i => r1 = r2
      BY <2>5
    <3>4. StateOf(i)' \notin {"none", "started", "reserved"}
      BY <2>4 DEF TerminalStates
    <3>5. QED
      BY <2>2, <2>4, <3>1, <3>2, <3>3, <3>4 DEF InvoiceInv
  <2>7. QED
    BY <2>0, <2>1, <2>2, <2>3, <2>6, OwnInvoiceOnly
<1>10. ASSUME NEW h \in Handlers, Ack(h) \/ Forget(h) PROVE SequentialInv'
  BY <1>10, <1>b DEF Ack, Forget, Return, TypeOK, stores
<1>11. CASE Seed
  BY <1>11, <1>b DEF Seed
<1>12. ASSUME NEW h \in Handlers, Raise(h) PROVE SequentialInv'
  <2>1. /\ pc[h] # "idle"
        /\ pc'[h] = "forget"
        /\ UNCHANGED <<saga, provider, published, call>>
        /\ \A g \in Handlers : g # h => pc'[g] = pc[g]
        /\ HandlerInv(h)
    BY <1>12 DEF Raise, Goto, TypeOK, SequentialInv, BodyPcs, stores
  <2>2. HandlerInv(h)'
    BY <2>1 DEF HandlerInv
  <2>3. QED
    BY <1>a, <2>1, <2>2
<1>13. ASSUME NEW h \in Handlers, RaiseInFirstTime(h) \/ ForgetFails(h)
       PROVE  SequentialInv'
  BY <1>13, <1>b DEF RaiseInFirstTime, ForgetFails, Return, TypeOK, stores
<1>14. CASE Crash \/ Switch
  BY <1>14, <1>b DEF Crash, Switch, stores
<1>15. CASE UNCHANGED vars
  BY <1>15, <1>b DEF vars, stores
<1>16. QED
  BY <1>1, <1>2, <1>3, <1>4, <1>5, <1>6, <1>7, <1>8, <1>9, <1>10, <1>11, <1>12,
     <1>13, <1>14, <1>15
  DEF Next, Step

\* The invariant holds as long as deliveries for one invoice do not overlap.
LEMMA SequentialInvariant == Spec => [](Sequential => SequentialInv)
<1>1. Init => SequentialInv
  BY DEF Init, Fresh, SequentialInv, OneAtATime, HandlerInv, InvoiceInv, StateOf, Unreported
<1>2. QED
  BY <1>1, TypeInvariant, SequentialBefore, SequentialStep, PTL DEF Spec

\* Once a saga is paid, compensated or rejected its record never changes again.
THEOREM TerminalSagasAreFinal == Spec => TerminalIsFinal
<1>1. TypeInv /\ (Sequential => SequentialInv) /\ [Next]_vars =>
        [Sequential' => \A i \in Invoices : IsTerminal(saga[i]) => saga'[i] = saga[i]]_vars
  <2> SUFFICES ASSUME TypeInv, Sequential => SequentialInv, Next, Sequential'
               PROVE  \A i \in Invoices : IsTerminal(saga[i]) => saga'[i] = saga[i]
    OBVIOUS
  <2>0. SequentialInv
    BY SequentialBefore
  <2>1. CASE \E h \in Handlers : Mark(h)
    <3>1. PICK h \in Handlers, m \in Marker :
            /\ pc[h] = m.at
            /\ Transition(h, m.writes)
      BY <2>1 DEF Mark
    <3>2. /\ HandlerInv(h)
          /\ pc[h] \in {"mark_refused", "mark_started", "mark_rejected",
                        "mark_reserved", "mark_compensated", "mark_paid"}
      BY <2>0, <3>1 DEF SequentialInv, Marker
    <3>3. StateOf(InvoiceOf(h)) \in {"none", "started", "reserved"}
      BY <3>2 DEF HandlerInv
    <3>4. ~IsTerminal(saga[InvoiceOf(h)])
      BY <3>3 DEF StateOf, IsTerminal, TerminalStates
    <3>5. QED
      BY <3>1, <3>4 DEF Transition, TypeInv, TypeOK
  <2>2. CASE UNCHANGED saga
    BY <2>2
  <2>3. QED
    BY <2>1, <2>2
    DEF Next, Step, Filter, Deliver, FirstTime, Load, Reserve, Execute, Release,
        Publish, Ack, Forget, Seed, Raise, RaiseInFirstTime, ForgetFails, Crash, Switch, stores
<1>2. QED
  BY <1>1, TypeInvariant, SequentialInvariant, PTL DEF Spec, TerminalIsFinal

\* As long as deliveries for one invoice do not overlap, payments stay within what
\* some event authorised (PaymentIsAuthorised).
THEOREM PaymentsAreAuthorised == Spec => []PaymentIsAuthorised
<1>1. TypeInv /\ (Sequential => SequentialInv) => PaymentIsAuthorised
  BY DEF SequentialInv, InvoiceInv, PaymentIsAuthorised
<1>2. QED
  BY <1>1, TypeInvariant, SequentialInvariant, PTL

\* What is reported of an invoice is what its record says in the end.
LEMMA ReportsOfRecord ==
  ASSUME TypeInv, SequentialInv, NEW r \in published
  PROVE  /\ r.invoice \in Invoices
         /\ (r.topic = "payment-completed") <=> (provider[r.invoice] # NoPayment)
         /\ \A other \in published : other.invoice = r.invoice => other = r
<1> DEFINE i == r.invoice
<1>1. i \in Invoices /\ InvoiceInv(i) /\ ~Unreported(i)
  BY DEF TypeInv, TypeOK, Report, SequentialInv, Unreported
<1>2. StateOf(i) \in TerminalStates
  BY <1>1 DEF InvoiceInv, StateOf, TypeInv, TypeOK, SagaRecord, TerminalStates
<1>3. (r.topic = "payment-completed") <=> (provider[i] # NoPayment)
  BY <1>1, <1>2 DEF InvoiceInv, TerminalStates
<1>4. ASSUME NEW other \in published, other.invoice = i PROVE other = r
  BY <1>1, <1>4 DEF InvoiceInv
<1>5. QED
  BY <1>1, <1>3, <1>4

\* As long as deliveries for one invoice do not overlap, what is published is so,
\* then and later, and is published once (ReportsAreTrue).
THEOREM ReportsStayTrue == Spec => []ReportsAreTrue
<1>1. TypeInv /\ (Sequential => SequentialInv) => ReportsAreTrue
  BY ReportsOfRecord DEF ReportsAreTrue
<1>2. QED
  BY <1>1, TypeInvariant, SequentialInvariant, PTL

--------------------------------------------------------------------------------
(* Who asked: whatever overlaps, records, handlers and payments carry a      *)
(* department and an amount that one event of their invoice asked for, and   *)
(* money is moved for invoices that have a record.                           *)

Asked(i, dept, amount) ==
  \E e \in Events : /\ Payload[e].go
                   /\ Payload[e].invoice = i
                   /\ Payload[e].dept = dept
                   /\ Payload[e].amount = amount

BookPcs == MoneyPcs \ {"mark_started"}

HandlerAsked(h) ==
  /\ pc[h] # "idle" => Asked(InvoiceOf(h), call[h].dept, call[h].amount)
  /\ pc[h] \in BookPcs => saga[InvoiceOf(h)] # NoSaga
  /\ pc[h] = "release" => reserves[InvoiceOf(h)] > 0

InvoiceAsked(i) ==
  /\ saga[i] # NoSaga => Asked(i, saga[i].dept, saga[i].amount)
  /\ provider[i] # NoPayment =>
       saga[i] # NoSaga /\ Asked(i, provider[i].dept, provider[i].amount)
  /\ reserves[i] > 0 \/ releases[i] > 0 => saga[i] # NoSaga

AskedInv ==
  /\ \A h \in Handlers : HandlerAsked(h)
  /\ \A i \in Invoices : InvoiceAsked(i)

LEMMA AskedStep ==
  TypeInv /\ ReservationInv /\ AskedInv /\ [Next]_vars => AskedInv'
<1> SUFFICES ASSUME TypeInv, ReservationInv, AskedInv, [Next]_vars PROVE AskedInv'
  OBVIOUS
<1> USE DEF TypeInv
<1>0. \A h \in Handlers : pc[h] # "idle" => InvoiceOf(h) \in Invoices
  BY CallTyped
<1>n. \A h \in Handlers : pc[h] = "idle" => pc[h] \notin BookPcs /\ pc[h] # "release"
  BY DEF BookPcs, MoneyPcs
\* Steps that move no money and write no record.
<1>a. ASSUME UNCHANGED <<saga, provider, reserves, releases>>,
             \A g \in Handlers : \/ pc'[g] = "idle"
                                 \/ pc'[g] = pc[g] /\ call'[g] = call[g]
                                 \/ HandlerAsked(g)'
      PROVE  AskedInv'
  <2>1. ASSUME NEW i \in Invoices PROVE InvoiceAsked(i)'
    BY <1>a DEF AskedInv, InvoiceAsked, Asked
  <2>2. ASSUME NEW g \in Handlers PROVE HandlerAsked(g)'
    <3>1. CASE pc'[g] = "idle"
      BY <3>1 DEF HandlerAsked, BookPcs, MoneyPcs
    <3>2. CASE pc'[g] = pc[g] /\ call'[g] = call[g]
      BY <1>a, <3>2 DEF AskedInv, HandlerAsked, Asked, InvoiceOf
    <3>3. QED
      BY <1>a, <3>1, <3>2
  <2>3. QED
    BY <2>1, <2>2 DEF AskedInv
\* Steps of a handler h that stays where it may be without a record.
<1>b. ASSUME NEW h \in Handlers, pc[h] # "idle", pc'[h] \notin BookPcs \cup {"release"},
             UNCHANGED <<saga, provider, reserves, releases, call>>,
             \A g \in Handlers : g # h => pc'[g] = pc[g]
      PROVE  AskedInv'
  <2>1. HandlerAsked(h)'
    BY <1>b DEF AskedInv, HandlerAsked, Asked, InvoiceOf
  <2>2. QED
    BY <1>a, <1>b, <2>1
<1>1. ASSUME NEW e \in Events, Filter(e) PROVE AskedInv'
  BY <1>1, <1>a DEF Filter, stores, history
<1>2. ASSUME NEW h \in Handlers, NEW e \in Events, Deliver(h, e) PROVE AskedInv'
  <2>1. /\ UNCHANGED <<saga, provider, reserves, releases>>
        /\ pc'[h] = "first_time"
        /\ call'[h] = [event |-> e, dept |-> Payload[e].dept, amount |-> Payload[e].amount]
        /\ \A g \in Handlers : g # h => pc'[g] = pc[g] /\ call'[g] = call[g]
        /\ Payload[e].go
    BY <1>2 DEF Deliver, Goto, TypeOK, stores, history
  <2>2. HandlerAsked(h)'
    BY <2>1 DEF HandlerAsked, Asked, InvoiceOf, BookPcs, MoneyPcs
  <2>3. QED
    BY <1>a, <2>1, <2>2
<1>3. ASSUME NEW h \in Handlers, FirstTime(h) PROVE AskedInv'
  BY <1>3, <1>b DEF FirstTime, Goto, TypeOK, BookPcs, MoneyPcs, history
<1>4. ASSUME NEW h \in Handlers, Load(h) PROVE AskedInv'
  <2> DEFINE record  == saga[InvoiceOf(h)]
             adopted == Adopted(call[h], record)
             next    == AfterLoad(adopted.event, record, adopted.amount)
  <2>1. pc[h] = "load" /\ UNCHANGED <<saga, provider, reserves, releases>>
    BY <1>4 DEF Load, stores, history
  <2>2. InvoiceOf(h) \in Invoices /\ call[h] \in Call
    BY <2>1, CallTyped
  <2>3. CASE Goto(h, "ack") /\ UNCHANGED call
    BY <1>b, <2>1, <2>3 DEF Goto, TypeOK, BookPcs, MoneyPcs
  <2>4. CASE Goto(h, next) /\ call' = [call EXCEPT ![h] = adopted]
    <3>1. /\ next # "release"
          /\ next \in BookPcs => record # NoSaga
      BY DEF AfterLoad, BookPcs, MoneyPcs
    <3>2. /\ adopted.event = call[h].event
          /\ Asked(InvoiceOf(h), adopted.dept, adopted.amount)
      <4>1. HandlerAsked(h) /\ InvoiceAsked(InvoiceOf(h))
        BY <2>2 DEF AskedInv
      <4>2. record # NoSaga => record \in SagaRecord
        BY <2>2 DEF TypeOK
      <4>3. Asked(InvoiceOf(h), call[h].dept, call[h].amount)
            /\ (record # NoSaga => Asked(InvoiceOf(h), record.dept, record.amount))
        BY <2>1, <4>1 DEF HandlerAsked, InvoiceAsked
      <4> HIDE DEF record
      <4>4. /\ adopted.event = call[h].event
            /\ record = NoSaga => adopted.dept = call[h].dept /\ adopted.amount = call[h].amount
            /\ record # NoSaga => adopted.dept = record.dept /\ adopted.amount = record.amount
        BY <2>2, <4>2 DEF Adopted, Call, SagaRecord
      <4> HIDE DEF adopted
      <4>5. QED
        BY <4>3, <4>4
    <3> HIDE DEF next, adopted
    <3>3. /\ pc'[h] = next /\ call'[h] = adopted
          /\ \A g \in Handlers : g # h => pc'[g] = pc[g] /\ call'[g] = call[g]
      BY <2>4 DEF Goto, TypeOK
    <3>4. HandlerAsked(h)'
      <4>1. InvoiceOf(h)' = InvoiceOf(h)
        BY <3>2, <3>3 DEF InvoiceOf
      <4>2. QED
        BY <2>1, <3>1, <3>2, <3>3, <4>1 DEF HandlerAsked, Asked
    <3>5. QED
      BY <1>a, <2>1, <3>3, <3>4
  <2>5. QED
    BY <1>4, <2>3, <2>4 DEF Load
<1>5. ASSUME NEW h \in Handlers, Mark(h) PROVE AskedInv'
  <2>1. PICK m \in Marker :
          /\ pc[h] = m.at
          /\ Transition(h, m.writes)
          /\ Goto(h, m.next)
          /\ UNCHANGED <<unacked, processed, budget, provider, published, call, faults, history>>
    BY <1>5 DEF Mark
  <2>2. /\ pc[h] # "idle"
        /\ m.writes \in {"started", "reserved"} \cup TerminalStates
        /\ m.next # "release"
    BY <2>1 DEF Marker, TerminalStates
  <2>i. PICK i \in Invoices : InvoiceOf(h) = i
    BY <1>0, <2>2
  <2>3. /\ pc'[h] = m.next
        /\ \A g \in Handlers : g # h => pc'[g] = pc[g]
        /\ \A g \in Handlers : InvoiceOf(g)' = InvoiceOf(g)
        /\ \A j \in Invoices : j # i => saga'[j] = saga[j]
    BY <2>1, <2>i DEF Goto, TypeOK, Transition, InvoiceOf
  <2>4. /\ saga'[i] # NoSaga
        /\ Asked(i, saga'[i].dept, saga'[i].amount)
    <3>1. saga'[i] = IF saga[i] = NoSaga
                     THEN [state |-> m.writes, dept |-> call[h].dept, amount |-> call[h].amount]
                     ELSE [saga[i] EXCEPT !.state = m.writes]
      BY <2>1, <2>i DEF Transition, TypeOK
    <3>2. saga'[i] # NoSaga
      <4>1. saga' \in [Invoices -> SagaRecord \cup {NoSaga}]
        BY <2>1, <2>2, TransitionTyped
      <4>2. call[h].dept \in Depts /\ call[h].amount \in Int
        BY <2>2, CallTyped
      <4>3. saga'[i] \in SagaRecord
        BY <2>2, <3>1, <4>2 DEF TypeOK, SagaRecord
      <4>4. QED
        BY <4>3, SentinelAssumption
    <3>3. saga[i] # NoSaga => saga[i] \in SagaRecord
      BY DEF TypeOK
    <3>4. HandlerAsked(h) /\ InvoiceAsked(i)
      BY DEF AskedInv
    <3>5. CASE saga[i] = NoSaga
      <4>1. saga'[i].dept = call[h].dept /\ saga'[i].amount = call[h].amount
        BY <3>1, <3>5
      <4>2. QED
        BY <2>2, <2>i, <3>2, <3>4, <4>1 DEF HandlerAsked
    <3>6. CASE saga[i] # NoSaga
      <4>1. saga'[i].dept = saga[i].dept /\ saga'[i].amount = saga[i].amount
        BY <3>1, <3>3, <3>6 DEF SagaRecord
      <4>2. QED
        BY <3>2, <3>4, <3>6, <4>1 DEF InvoiceAsked
    <3>7. QED
      BY <3>5, <3>6
  <2>5. \A j \in Invoices : saga[j] # NoSaga => saga'[j] # NoSaga
    BY <2>3, <2>4
  <2>6. ASSUME NEW g \in Handlers PROVE HandlerAsked(g)'
    <3>1. HandlerAsked(g) /\ (pc[g] # "idle" => InvoiceOf(g) \in Invoices)
      BY <1>0 DEF AskedInv
    <3>2. CASE g = h
      BY <2>1, <2>2, <2>i, <2>3, <2>4, <3>1, <3>2 DEF HandlerAsked, Asked, history
    <3>3. CASE g # h
      BY <1>n, <2>1, <2>3, <2>5, <3>1, <3>3 DEF HandlerAsked, Asked, history
    <3>4. QED
      BY <3>2, <3>3
  <2>7. ASSUME NEW j \in Invoices PROVE InvoiceAsked(j)'
    <3>1. InvoiceAsked(j)
      BY DEF AskedInv
    <3>2. CASE j = i
      BY <2>1, <2>4, <3>1, <3>2 DEF InvoiceAsked, Asked, history
    <3>3. CASE j # i
      BY <2>1, <2>3, <3>1, <3>3 DEF InvoiceAsked, Asked, history
    <3>4. QED
      BY <3>2, <3>3
  <2>8. QED
    BY <2>6, <2>7 DEF AskedInv
<1>6. ASSUME NEW h \in Handlers, Reserve(h) PROVE AskedInv'
  <2>i. PICK i \in Invoices : InvoiceOf(h) = i
    BY <1>0, <1>6 DEF Reserve
  <2>1. /\ pc[h] = "reserve" /\ pc'[h] \in {"mark_reserved", "mark_rejected"}
        /\ UNCHANGED <<saga, provider, releases, call>>
        /\ \A g \in Handlers : g # h => pc'[g] = pc[g]
        /\ \A j \in Invoices : j # i => reserves'[j] = reserves[j]
        /\ reserves'[i] \in {reserves[i], reserves[i] + 1}
        /\ reserves[i] \in Nat
    BY <1>6, <2>i DEF Reserve, Goto, TypeOK
  <2>2. HandlerAsked(h) /\ saga[i] # NoSaga
    BY <2>1, <2>i DEF AskedInv, HandlerAsked, BookPcs, MoneyPcs
  <2>3. ASSUME NEW g \in Handlers PROVE HandlerAsked(g)'
    <3>1. HandlerAsked(g) /\ (pc[g] # "idle" => InvoiceOf(g) \in Invoices)
      BY <1>0 DEF AskedInv
    <3>2. CASE g = h
      BY <2>1, <2>i, <2>2, <3>2 DEF HandlerAsked, Asked, InvoiceOf
    <3>3. CASE g # h
      <4>1. \A j \in Invoices : reserves[j] > 0 => reserves'[j] > 0
        BY <2>1
      <4>2. QED
        BY <1>n, <2>1, <3>1, <3>3, <4>1 DEF HandlerAsked, Asked, InvoiceOf
    <3>4. QED
      BY <3>2, <3>3
  <2>4. ASSUME NEW j \in Invoices PROVE InvoiceAsked(j)'
    BY <2>1, <2>2 DEF AskedInv, InvoiceAsked, Asked
  <2>5. QED
    BY <2>3, <2>4 DEF AskedInv
<1>7. ASSUME NEW h \in Handlers, Execute(h) PROVE AskedInv'
  <2>i. PICK i \in Invoices : InvoiceOf(h) = i
    BY <1>0, <1>7 DEF Execute
  <2>1. /\ pc[h] = "execute" /\ pc'[h] \in {"mark_paid", "release"}
        /\ UNCHANGED <<saga, reserves, releases, call>>
        /\ \A g \in Handlers : g # h => pc'[g] = pc[g]
        /\ \A j \in Invoices : j # i => provider'[j] = provider[j]
        /\ \/ provider'[i] = provider[i]
           \/ provider'[i] = [dept |-> call[h].dept, amount |-> call[h].amount]
    BY <1>7, <2>i DEF Execute, Goto, TypeOK, history
  <2>2. /\ HandlerAsked(h) /\ saga[i] # NoSaga /\ reserves[i] > 0
        /\ Asked(i, call[h].dept, call[h].amount)
    BY <2>1, <2>i DEF AskedInv, HandlerAsked, ReservationInv, BookPcs, MoneyPcs
  <2>3. ASSUME NEW g \in Handlers PROVE HandlerAsked(g)'
    <3>1. HandlerAsked(g)
      BY DEF AskedInv
    <3>2. CASE g = h
      BY <2>1, <2>i, <2>2, <3>2 DEF HandlerAsked, Asked, InvoiceOf
    <3>3. CASE g # h
      BY <2>1, <3>1, <3>3 DEF HandlerAsked, Asked, InvoiceOf
    <3>4. QED
      BY <3>2, <3>3
  <2>4. ASSUME NEW j \in Invoices PROVE InvoiceAsked(j)'
    <3>1. InvoiceAsked(j)
      BY DEF AskedInv
    <3>2. provider'[j] # NoPayment =>
            saga'[j] # NoSaga /\ Asked(j, provider'[j].dept, provider'[j].amount)
      <4>1. CASE provider'[j] = provider[j]
        BY <2>1, <3>1, <4>1 DEF InvoiceAsked
      <4>2. CASE j = i /\ provider'[i] = [dept |-> call[h].dept, amount |-> call[h].amount]
        BY <2>1, <2>2, <4>2
      <4>3. QED
        BY <2>1, <4>1, <4>2
    <3>3. QED
      BY <2>1, <3>1, <3>2 DEF InvoiceAsked, Asked
  <2>5. QED
    BY <2>3, <2>4 DEF AskedInv
<1>8. ASSUME NEW h \in Handlers, Release(h) PROVE AskedInv'
  <2>i. PICK i \in Invoices : InvoiceOf(h) = i
    BY <1>0, <1>8 DEF Release
  <2>1. /\ pc[h] = "release" /\ pc'[h] = "mark_compensated"
        /\ UNCHANGED <<saga, provider, reserves, call>>
        /\ \A g \in Handlers : g # h => pc'[g] = pc[g]
        /\ \A j \in Invoices : j # i => releases'[j] = releases[j]
    BY <1>8, <2>i DEF Release, Goto, TypeOK
  <2>2. HandlerAsked(h) /\ saga[i] # NoSaga
    BY <2>1, <2>i DEF AskedInv, HandlerAsked, BookPcs, MoneyPcs
  <2>3. ASSUME NEW g \in Handlers PROVE HandlerAsked(g)'
    <3>1. HandlerAsked(g)
      BY DEF AskedInv
    <3>2. CASE g = h
      BY <2>1, <2>i, <2>2, <3>2 DEF HandlerAsked, Asked, InvoiceOf
    <3>3. CASE g # h
      BY <2>1, <3>1, <3>3 DEF HandlerAsked, Asked, InvoiceOf
    <3>4. QED
      BY <3>2, <3>3
  <2>4. ASSUME NEW j \in Invoices PROVE InvoiceAsked(j)'
    BY <2>1, <2>2 DEF AskedInv, InvoiceAsked, Asked
  <2>5. QED
    BY <2>3, <2>4 DEF AskedInv
<1>9. ASSUME NEW h \in Handlers, Publish(h) PROVE AskedInv'
  BY <1>9, <1>b DEF Publish, Goto, TypeOK, BookPcs, MoneyPcs, stores, history
<1>10. ASSUME NEW h \in Handlers, Ack(h) \/ Forget(h) \/ RaiseInFirstTime(h) \/ ForgetFails(h)
       PROVE  AskedInv'
  BY <1>10, <1>a DEF Ack, Forget, RaiseInFirstTime, ForgetFails, Return, TypeOK, stores, history
<1>11. CASE Seed
  BY <1>11, <1>a DEF Seed, history
<1>12. ASSUME NEW h \in Handlers, Raise(h) PROVE AskedInv'
  BY <1>12, <1>b DEF Raise, Goto, TypeOK, BodyPcs, BookPcs, MoneyPcs, stores, history
<1>13. CASE Crash \/ Switch
  BY <1>13, <1>a DEF Crash, Switch, stores, history
<1>14. CASE UNCHANGED vars
  BY <1>14, <1>a DEF vars, stores, history
<1>15. QED
  BY <1>1, <1>2, <1>3, <1>4, <1>5, <1>6, <1>7, <1>8, <1>9, <1>10, <1>11, <1>12, <1>13, <1>14
  DEF Next, Step

LEMMA AskedInvariant == Spec => []AskedInv
<1>1. Init => AskedInv
  BY DEF Init, Fresh, AskedInv, HandlerAsked, InvoiceAsked, BookPcs, MoneyPcs
<1>2. QED
  BY <1>1, TypeInvariant, ReservationInvariant, AskedStep, PTL DEF Spec

\* When deliveries of one invoice do not overlap, or ask for the same, a handler
\* that moves money moves what the record says, and so does the provider.
LEMMA Agreement ==
  ASSUME TypeInv, AskedInv, Sequential => SequentialInv, Sequential \/ Unanimous
  PROVE  /\ \A h \in Handlers : pc[h] \in BookPcs => Agrees(h)
         /\ \A i \in Invoices : provider[i] # NoPayment =>
              /\ saga[i] # NoSaga
              /\ provider[i].dept = saga[i].dept
              /\ provider[i].amount = saga[i].amount
<1>1. CASE Sequential
  <2>1. ASSUME NEW h \in Handlers, pc[h] \in BookPcs PROVE Agrees(h)
    BY <1>1, <2>1 DEF SequentialInv, HandlerInv, BookPcs, MoneyPcs
  <2>2. ASSUME NEW i \in Invoices, provider[i] # NoPayment
        PROVE  /\ saga[i] # NoSaga
               /\ provider[i].dept = saga[i].dept
               /\ provider[i].amount = saga[i].amount
    <3>1. /\ saga[i] # NoSaga
          /\ provider[i] = [dept |-> saga[i].dept, amount |-> saga[i].amount]
      BY <1>1, <2>2 DEF SequentialInv, InvoiceInv
    <3>2. QED
      BY <3>1
  <2>3. QED
    BY <2>1, <2>2
<1>2. CASE Unanimous
  <2>1. ASSUME NEW i, NEW d1, NEW a1, NEW d2, NEW a2, Asked(i, d1, a1), Asked(i, d2, a2)
        PROVE  d1 = d2 /\ a1 = a2
    BY <1>2, <2>1 DEF Asked, Unanimous
  <2>2. ASSUME NEW h \in Handlers, pc[h] \in BookPcs PROVE Agrees(h)
    <3>1. pc[h] # "idle" /\ HandlerAsked(h)
      BY <2>2 DEF AskedInv, BookPcs, MoneyPcs
    <3>2. InvoiceOf(h) \in Invoices
      BY <3>1, CallTyped DEF TypeInv
    <3>3. InvoiceAsked(InvoiceOf(h))
      BY <3>2 DEF AskedInv
    <3>4. QED
      BY <2>1, <2>2, <3>1, <3>3 DEF HandlerAsked, InvoiceAsked, Agrees
  <2>3. ASSUME NEW i \in Invoices, provider[i] # NoPayment
        PROVE  /\ saga[i] # NoSaga
               /\ provider[i].dept = saga[i].dept
               /\ provider[i].amount = saga[i].amount
    BY <2>1, <2>3 DEF AskedInv, InvoiceAsked
  <2>4. QED
    BY <2>2, <2>3
<1>3. QED
  BY <1>1, <1>2

--------------------------------------------------------------------------------
(* The ledger: a budget is what was there at the start less what is reserved *)
(* and not released, invoice by invoice, as the records have it.             *)

Held(d) ==
  [i \in Invoices |->
     IF saga[i] # NoSaga /\ saga[i].dept = d
     THEN saga[i].amount * (reserves[i] - releases[i]) ELSE 0]

Reserved(d) == SumFunctionOnSet(Held(d), Invoices)

Balanced(d) ==
  /\ Seeded(budget)[d] # NoBudget => Seeded(budget)[d] = Start(d) - Reserved(d)
  /\ Seeded(budget)[d] = NoBudget =>
       \A i \in Invoices : saga[i] # NoSaga /\ saga[i].dept = d => reserves[i] = 0

LedgerInv ==
  /\ \A i \in Invoices : reserves[i] > 0 => saga[i].amount > 0
  /\ \A d \in Depts : Balanced(d)

LEMMA HeldTyped ==
  ASSUME TypeOK, NEW d
  PROVE  Held(d) \in [Invoices -> Int]
<1>1. ASSUME NEW i \in Invoices, saga[i] # NoSaga
      PROVE  saga[i].amount * (reserves[i] - releases[i]) \in Int
  <2>1. saga[i].amount \in Int /\ reserves[i] - releases[i] \in Int
    BY <1>1 DEF TypeOK, SagaRecord
  <2>2. QED
    BY <2>1
<1>2. QED
  BY <1>1 DEF Held

\* Departments that are all registered are not seeded again.
LEMMA SeededFixed ==
  ASSUME NEW b \in [Depts -> Nat \cup {NoBudget}],
         \A d \in Depts : b[d] = NoBudget => InitialBudget[d] = NoBudget
  PROVE  Seeded(b) = b
BY DEF Seeded

\* Seeding leaves nothing to seed.
LEMMA SeededComplete ==
  ASSUME NEW b \in [Depts -> Nat \cup {NoBudget}]
  PROVE  /\ Seeded(b) \in [Depts -> Nat \cup {NoBudget}]
         /\ \A d \in Depts : Seeded(b)[d] = NoBudget => InitialBudget[d] = NoBudget
         /\ Seeded(Seeded(b)) = Seeded(b)
<1>1. /\ Seeded(b) \in [Depts -> Nat \cup {NoBudget}]
      /\ \A d \in Depts : Seeded(b)[d] = NoBudget => InitialBudget[d] = NoBudget
  BY BudgetAssumption DEF Seeded
<1>2. QED
  BY <1>1, SeededFixed

\* A handler that changes what one invoice has reserved of its department, and the
\* budget of that department by as much, keeps the ledger balanced.
LEMMA BalanceKept ==
  ASSUME TypeOK, TypeOK', NEW i \in Invoices, NEW d \in Depts, NEW b, NEW delta \in Int,
         b = Seeded(budget), b[d] # NoBudget,
         saga[i] # NoSaga, saga[i].dept = d, UNCHANGED saga,
         \A j \in Invoices : j # i => reserves'[j] = reserves[j] /\ releases'[j] = releases[j],
         saga[i].amount * (reserves'[i] - releases'[i])
           = saga[i].amount * (reserves[i] - releases[i]) + delta,
         b[d] - delta \in Nat,
         budget' = [b EXCEPT ![d] = b[d] - delta],
         \A e \in Depts : Balanced(e)
  PROVE  \A e \in Depts : Balanced(e)'
<1>1. /\ b \in [Depts -> Nat \cup {NoBudget}]
      /\ \A e \in Depts : b[e] = NoBudget => InitialBudget[e] = NoBudget
  BY SeededComplete DEF TypeOK
<1>2. b[d] - delta # NoBudget
  BY SentinelAssumption
<1>3. Seeded(budget') = budget'
  <2>1. \A e \in Depts : budget'[e] = NoBudget => InitialBudget[e] = NoBudget
    BY <1>1, <1>2
  <2>2. QED
    BY <2>1, SeededFixed DEF TypeOK
<1>4. Held(d) \in [Invoices -> Int] /\ Held(d)' \in [Invoices -> Int]
  <2>1. ASSUME NEW j \in Invoices, saga'[j] # NoSaga
        PROVE  saga'[j].amount * (reserves'[j] - releases'[j]) \in Int
    <3>1. saga'[j].amount \in Int /\ reserves'[j] - releases'[j] \in Int
      BY <2>1 DEF TypeOK, SagaRecord
    <3>2. QED
      BY <3>1
  <2>2. Held(d)' \in [Invoices -> Int]
    BY <2>1 DEF Held
  <2>3. QED
    BY <2>2, HeldTyped
<1>5. Reserved(d)' = Reserved(d) + delta
  <2> DEFINE p == Held(d)
             q == [j \in Invoices |->
                     IF saga'[j] # NoSaga /\ saga'[j].dept = d
                     THEN saga'[j].amount * (reserves'[j] - releases'[j]) ELSE 0]
  <2>1. q = Held(d)'
    BY DEF Held
  <2>2. \A j \in Invoices \ {i} : q[j] = p[j]
    BY DEF Held
  <2>3. q[i] = p[i] + delta
    BY DEF Held
  <2>4. \A j \in Invoices : p[j] \in Int /\ q[j] \in Int
    BY <1>4, <2>1
  <2>5. Reserved(d)' = SumFunctionOnSet(q, Invoices) /\ Reserved(d) = SumFunctionOnSet(p, Invoices)
    BY <2>1 DEF Reserved
  <2> HIDE DEF p, q
  <2>6. SumFunctionOnSet(q, Invoices) = SumFunctionOnSet(p, Invoices) + q[i] - p[i]
    BY <2>2, <2>4, SumChanged, InvoicesAssumption
  <2>7. SumFunctionOnSet(p, Invoices) \in Int
    BY <2>4, SumTyped, InvoicesAssumption
  <2>8. QED
    BY <2>3, <2>4, <2>5, <2>6, <2>7
<1>6. Balanced(d)'
  <2>1. b[d] = Start(d) - Reserved(d)
    BY DEF Balanced
  <2>2. Reserved(d) \in Int
    BY <1>4, SumTyped, InvoicesAssumption DEF Reserved
  <2>3. Start(d) \in Nat
    BY BudgetAssumption DEF Start
  <2>4. budget'[d] = b[d] - delta
    BY <1>1
  <2>5. b[d] \in Int
    BY <1>1
  <2>6. budget'[d] = Start(d) - (Reserved(d) + delta)
    BY <2>1, <2>2, <2>3, <2>4, <2>5
  <2>7. QED
    BY <1>2, <1>3, <1>5, <2>4, <2>6 DEF Balanced, Start
<1>7. ASSUME NEW e \in Depts, e # d PROVE Balanced(e)'
  <2>1. Held(e)' = Held(e)
    BY <1>7 DEF Held
  <2>2. Reserved(e)' = Reserved(e)
    BY <2>1 DEF Reserved
  <2>3. budget'[e] = b[e]
    BY <1>1, <1>7
  <2>4. \A j \in Invoices : saga[j] # NoSaga /\ saga[j].dept = e => reserves'[j] = reserves[j]
    BY <1>7
  <2>5. Balanced(e)
    OBVIOUS
  <2>6. QED
    BY <1>3, <2>2, <2>3, <2>4, <2>5 DEF Balanced, Start
<1>8. QED
  BY <1>6, <1>7

\* With one delivery per invoice at a time, or deliveries that ask for the same,
\* every step keeps the ledger, whatever fails.
LEMMA LedgerStep ==
  ASSUME TypeInv, TypeInv', ReservationInv, AskedInv, Sequential => SequentialInv,
         Sequential \/ Unanimous, LedgerInv, [Next]_vars
  PROVE  LedgerInv'
<1> USE DEF TypeInv
<1>0. \A h \in Handlers : pc[h] # "idle" => InvoiceOf(h) \in Invoices
  BY CallTyped
\* Steps that neither move money nor write a record.
<1>a. ASSUME UNCHANGED <<saga, reserves, releases>>, Seeded(budget)' = Seeded(budget)
      PROVE  LedgerInv'
  <2>1. \A d \in Depts : Held(d)' = Held(d)
    BY <1>a DEF Held
  <2>2. ASSUME NEW d \in Depts PROVE Balanced(d)'
    <3>1. Reserved(d)' = Reserved(d)
      BY <2>1 DEF Reserved
    <3>2. Balanced(d)
      BY DEF LedgerInv
    <3>3. QED
      BY <1>a, <3>1, <3>2 DEF Balanced, Start
  <2>3. QED
    BY <1>a, <2>2 DEF LedgerInv
<1>b. ASSUME UNCHANGED <<saga, reserves, releases, budget>> PROVE LedgerInv'
  BY <1>a, <1>b DEF Seeded
<1>s. Seeded(Seeded(budget)) = Seeded(budget)
  BY SeededComplete DEF TypeOK
<1>1. ASSUME NEW h \in Handlers, Mark(h) PROVE LedgerInv'
  <2>1. PICK m \in Marker : pc[h] = m.at /\ Transition(h, m.writes)
                            /\ UNCHANGED <<budget, reserves, releases>>
    BY <1>1 DEF Mark, history
  <2>i. PICK i \in Invoices : InvoiceOf(h) = i
    BY <1>0, <2>1 DEF Marker
  <2>2. /\ \A j \in Invoices : j # i => saga'[j] = saga[j]
        /\ saga[i] # NoSaga => /\ saga'[i] # NoSaga
                               /\ saga'[i].dept = saga[i].dept
                               /\ saga'[i].amount = saga[i].amount
        /\ saga'[i] # NoSaga /\ saga'[i] \in SagaRecord
    <3>1. /\ pc[h] # "idle"
          /\ m.writes \in {"started", "reserved"} \cup TerminalStates
      BY <2>1 DEF Marker, TerminalStates
    <3>2. call[h].dept \in Depts /\ call[h].amount \in Int
      BY <3>1, CallTyped
    <3>3. saga[i] # NoSaga => saga[i] \in SagaRecord
      BY DEF TypeOK
    <3>4. saga'[i] = IF saga[i] = NoSaga
                     THEN [state |-> m.writes, dept |-> call[h].dept, amount |-> call[h].amount]
                     ELSE [saga[i] EXCEPT !.state = m.writes]
      BY <2>1, <2>i DEF Transition, TypeOK
    <3>5. saga'[i] \in SagaRecord
      BY <3>1, <3>2, <3>3, <3>4 DEF SagaRecord
    <3>6. \A j \in Invoices : j # i => saga'[j] = saga[j]
      BY <2>1, <2>i DEF Transition, TypeOK
    <3>7. saga[i] # NoSaga => saga'[i].dept = saga[i].dept /\ saga'[i].amount = saga[i].amount
      BY <3>3, <3>4 DEF SagaRecord
    <3>8. QED
      BY <3>5, <3>6, <3>7, SentinelAssumption
  <2>3. saga[i] = NoSaga => reserves[i] = 0 /\ releases[i] = 0
    BY DEF AskedInv, InvoiceAsked, TypeOK
  <2>4. ASSUME NEW d \in Depts, NEW j \in Invoices PROVE Held(d)'[j] = Held(d)[j]
    <3>1. CASE saga[j] = NoSaga /\ saga'[j] # NoSaga
      <4>1. j = i /\ saga'[j].amount \in Int /\ reserves'[j] = 0 /\ releases'[j] = 0
        BY <2>1, <2>2, <2>3, <3>1 DEF SagaRecord
      <4>2. saga'[j].amount * (reserves'[j] - releases'[j]) = 0
        <5>1. \A n \in Int : n * (0 - 0) = 0
          OBVIOUS
        <5>2. QED
          BY <4>1, <5>1
      <4>3. Held(d)'[j] = 0
        BY <4>2 DEF Held
      <4>4. QED
        BY <3>1, <4>3 DEF Held
    <3>2. CASE ~(saga[j] = NoSaga /\ saga'[j] # NoSaga)
      <4>1. \/ saga'[j] = saga[j]
            \/ /\ saga'[j] # NoSaga /\ saga[j] # NoSaga
               /\ saga'[j].dept = saga[j].dept /\ saga'[j].amount = saga[j].amount
        BY <2>2, <3>2
      <4>2. QED
        BY <2>1, <4>1 DEF Held
    <3>3. QED
      BY <3>1, <3>2
  <2>5. ASSUME NEW d \in Depts PROVE Balanced(d)'
    <3>1. Held(d)' = Held(d)
      BY <2>4 DEF Held
    <3>2. Reserved(d)' = Reserved(d)
      BY <3>1 DEF Reserved
    <3>3. Balanced(d) /\ Seeded(budget)' = Seeded(budget)
      BY <2>1 DEF LedgerInv, Seeded
    <3>4. \A j \in Invoices : saga'[j] # NoSaga /\ saga'[j].dept = d /\ reserves[j] # 0 =>
            saga[j] # NoSaga /\ saga[j].dept = d
      BY <2>2, <2>3
    <3>5. QED
      BY <2>1, <3>2, <3>3, <3>4 DEF Balanced, Start
  <2>6. \A j \in Invoices : reserves'[j] > 0 => saga'[j].amount > 0
    <3>1. \A j \in Invoices : reserves[j] > 0 => saga[j] # NoSaga /\ saga[j].amount > 0
      BY DEF LedgerInv, AskedInv, InvoiceAsked
    <3>2. QED
      BY <2>1, <2>2, <3>1
  <2>7. QED
    BY <2>5, <2>6 DEF LedgerInv
<1>2. ASSUME NEW h \in Handlers, Reserve(h) PROVE LedgerInv'
  <2> DEFINE b == Seeded(budget)
  <2>i. PICK i \in Invoices : InvoiceOf(h) = i
    BY <1>0, <1>2 DEF Reserve
  <2>d. PICK d \in Depts : d = call[h].dept
    BY <1>2, CallTyped DEF Reserve
  <2>a. PICK a \in Int : a = call[h].amount
    BY <1>2, CallTyped DEF Reserve
  <2>1. pc[h] = "reserve" /\ UNCHANGED <<saga, releases>>
    BY <1>2 DEF Reserve
  <2>2. a > 0 /\ saga[i] # NoSaga /\ saga[i].dept = d /\ saga[i].amount = a
    <3>1. Agrees(h)
      BY <2>1, Agreement DEF BookPcs, MoneyPcs
    <3>2. QED
      BY <2>1, <2>i, <2>d, <2>a, <3>1 DEF Agrees, PositiveAmounts, MoneyPcs
  <2>3. CASE ~Covers(b[d], a)
    <3>1. budget' = b /\ UNCHANGED reserves
      BY <1>2, <2>d, <2>a, <2>3 DEF Reserve
    <3>2. Seeded(budget)' = Seeded(budget')
      BY DEF Seeded
    <3>3. QED
      BY <1>a, <1>s, <2>1, <3>1, <3>2
  <2>4. CASE Covers(b[d], a)
    <3>1. /\ budget' = [b EXCEPT ![d] = b[d] - a]
          /\ reserves' = [reserves EXCEPT ![i] = @ + 1]
      BY <1>2, <2>i, <2>d, <2>a, <2>4 DEF Reserve
    <3>2. b[d] # NoBudget /\ b[d] \in Nat /\ b[d] - a \in Nat
      <4>1. b[d] \in Nat \cup {NoBudget}
        BY SeededTyped DEF TypeOK
      <4>2. QED
        BY <2>4, <2>2, <4>1 DEF Covers
    <3>3. /\ \A j \in Invoices : j # i => reserves'[j] = reserves[j] /\ releases'[j] = releases[j]
          /\ reserves'[i] = reserves[i] + 1 /\ releases'[i] = releases[i]
          /\ reserves[i] \in Nat /\ releases[i] \in Nat
      BY <2>1, <3>1 DEF TypeOK
    <3>4. saga[i].amount * (reserves'[i] - releases'[i])
            = saga[i].amount * (reserves[i] - releases[i]) + a
      <4>1. \A n, r, g \in Int : n * ((r + 1) - g) = n * (r - g) + n
        OBVIOUS
      <4>2. reserves[i] \in Int /\ releases[i] \in Int
        BY <3>3
      <4>3. QED
        BY <2>2, <3>3, <4>1, <4>2
    <3> HIDE DEF b
    <3>5. b = Seeded(budget) /\ \A e \in Depts : Balanced(e)
      BY DEF b, LedgerInv
    <3>6. \A e \in Depts : Balanced(e)'
      BY <2>1, <2>2, <3>1, <3>2, <3>3, <3>4, <3>5, BalanceKept
    <3>7. \A j \in Invoices : reserves'[j] > 0 => saga'[j].amount > 0
      BY <2>1, <2>2, <3>3 DEF LedgerInv
    <3>8. QED
      BY <3>6, <3>7 DEF LedgerInv
  <2>5. QED
    BY <2>3, <2>4
<1>3. ASSUME NEW h \in Handlers, Release(h) PROVE LedgerInv'
  <2> DEFINE b == Seeded(budget)
  <2>i. PICK i \in Invoices : InvoiceOf(h) = i
    BY <1>0, <1>3 DEF Release
  <2>d. PICK d \in Depts : d = call[h].dept
    BY <1>3, CallTyped DEF Release
  <2>a. PICK a \in Int : a = call[h].amount
    BY <1>3, CallTyped DEF Release
  <2>1. pc[h] = "release" /\ UNCHANGED <<saga, reserves>>
    BY <1>3 DEF Release
  <2>2. a > 0 /\ saga[i] # NoSaga /\ saga[i].dept = d /\ saga[i].amount = a
    <3>1. Agrees(h)
      BY <2>1, Agreement DEF BookPcs, MoneyPcs
    <3>2. QED
      BY <2>1, <2>i, <2>d, <2>a, <3>1 DEF Agrees, PositiveAmounts, MoneyPcs
  <2>3. b[d] # NoBudget
    <3>1. reserves[i] > 0
      BY <2>1, <2>i DEF AskedInv, HandlerAsked
    <3>2. QED
      BY <2>2, <3>1 DEF LedgerInv, Balanced
  <2>4. b[d] \in Nat
    <3>1. b[d] \in Nat \cup {NoBudget}
      BY SeededTyped DEF TypeOK
    <3>2. QED
      BY <2>3, <3>1
  <2>5. budget' = [b EXCEPT ![d] = b[d] - (0 - a)] /\ b[d] - (0 - a) \in Nat /\ 0 - a \in Int
    <3>1. b[d] + a = b[d] - (0 - a) /\ b[d] - (0 - a) \in Nat
      BY <2>2, <2>4
    <3>2. Credited(b[d], a) = b[d] + a
      BY <2>3 DEF Credited
    <3>3. budget' = [b EXCEPT ![d] = Credited(b[d], a)]
      BY <1>3, <2>d, <2>a DEF Release
    <3> HIDE DEF b
    <3>4. Credited(b[d], a) = b[d] - (0 - a)
      BY <3>1, <3>2
    <3>5. budget' = [b EXCEPT ![d] = b[d] - (0 - a)]
      BY <3>3, <3>4, Zenon
    <3>6. 0 - a \in Int
      BY <2>a
    <3>7. QED
      BY <3>1, <3>5, <3>6
  <2>6. /\ \A j \in Invoices : j # i => reserves'[j] = reserves[j] /\ releases'[j] = releases[j]
        /\ reserves'[i] = reserves[i] /\ releases'[i] = releases[i] + 1
        /\ reserves[i] \in Int /\ releases[i] \in Int
    BY <1>3, <2>1, <2>i DEF Release, TypeOK
  <2>7. saga[i].amount * (reserves'[i] - releases'[i])
          = saga[i].amount * (reserves[i] - releases[i]) + (0 - a)
    <3>1. \A n, r, g \in Int : n * (r - (g + 1)) = n * (r - g) + (0 - n)
      OBVIOUS
    <3>2. QED
      BY <2>2, <2>6, <3>1
  <2> HIDE DEF b
  <2>8. b = Seeded(budget) /\ \A e \in Depts : Balanced(e)
    BY DEF b, LedgerInv
  <2>9. \A e \in Depts : Balanced(e)'
    BY <2>1, <2>2, <2>3, <2>5, <2>6, <2>7, <2>8, BalanceKept
  <2>10. \A j \in Invoices : reserves'[j] > 0 => saga'[j].amount > 0
    BY <2>1, <2>6 DEF LedgerInv
  <2>11. QED
    BY <2>9, <2>10 DEF LedgerInv
<1>4. CASE Seed
  <2>1. /\ UNCHANGED <<saga, reserves, releases>>
        /\ Seeded(budget)' = Seeded(Seeded(budget))
    BY <1>4 DEF Seed, history, Seeded
  <2>2. QED
    BY <1>a, <1>s, <2>1
<1>5. CASE \/ \E e \in Events : Filter(e)
           \/ \E h \in Handlers, e \in Events : Deliver(h, e)
           \/ \E h \in Handlers : FirstTime(h) \/ Load(h) \/ Execute(h) \/ Publish(h)
                                  \/ Ack(h) \/ Forget(h)
           \/ \E h \in Handlers : Raise(h) \/ RaiseInFirstTime(h) \/ ForgetFails(h)
           \/ Crash \/ Switch
           \/ UNCHANGED vars
  BY <1>5, <1>b
  DEF Filter, Deliver, FirstTime, Load, Execute, Publish, Ack, Forget, Raise, RaiseInFirstTime,
      ForgetFails, Crash, Switch, vars, stores, history
<1>6. QED
  BY <1>1, <1>2, <1>3, <1>4, <1>5 DEF Next, Step


\* With one delivery per invoice at a time, or deliveries that ask for the same,
\* the ledger balances at every moment, whatever fails.
LEMMA LedgerInvariant == Spec => []((Sequential \/ Unanimous) => LedgerInv)
<1>1. Init => LedgerInv
  <2> SUFFICES ASSUME Init PROVE LedgerInv
    OBVIOUS
  <2>1. /\ \A i \in Invoices : saga[i] = NoSaga /\ reserves[i] = 0
        /\ \A d \in Depts : budget[d] = NoBudget
    BY DEF Init, Fresh
  <2>2. ASSUME NEW d \in Depts PROVE Balanced(d)
    <3> DEFINE p == Held(d)
    <3>1. \A i \in Invoices : p[i] = 0
      BY <2>1 DEF Held
    <3>2. SumFunctionOnSet(p, Invoices) = SumFunctionOnSet(p, {})
      <4> HIDE DEF p
      <4>1. {} \in SUBSET Invoices
        OBVIOUS
      <4>2. QED
        BY <3>1, <4>1, SumPadded, InvoicesAssumption
    <3>3. SumFunctionOnSet(p, {}) = 0
      BY SumUnfolds, FS_EmptySet
    <3>4. Reserved(d) = 0
      BY <3>2, <3>3 DEF Reserved
    <3>5. Seeded(budget)[d] = InitialBudget[d]
      BY <2>1 DEF Seeded
    <3>6. QED
      BY <2>1, <3>4, <3>5, BudgetAssumption DEF Balanced, Start
  <2>3. QED
    BY <2>1, <2>2 DEF LedgerInv
<1>2. TypeInv /\ TypeInv' /\ ReservationInv /\ AskedInv /\ (Sequential => SequentialInv)
      /\ ((Sequential \/ Unanimous) => LedgerInv) /\ [Next]_vars
        => ((Sequential \/ Unanimous)' => LedgerInv')
  <2> SUFFICES ASSUME TypeInv, TypeInv', ReservationInv, AskedInv, Sequential => SequentialInv,
                      (Sequential \/ Unanimous) => LedgerInv, [Next]_vars,
                      (Sequential \/ Unanimous)'
               PROVE  LedgerInv'
    OBVIOUS
  <2>1. Sequential \/ Unanimous
    BY SequentialBefore DEF Unanimous
  <2>2. QED
    BY <2>1, LedgerStep
<1>3. QED
  BY <1>1, <1>2, TypeInvariant, ReservationInvariant, AskedInvariant, SequentialInvariant,
     PTL DEF Spec

--------------------------------------------------------------------------------
(* The books: as long as nothing fails, each marker counts what was moved,   *)
(* and a saga that is not terminal has a handler at work on it.              *)

Quiet == Sequential /\ ~Suffered({"call", "crash"})

Moved(i, taken, back) == reserves[i] = taken /\ releases[i] = back

HandlerBooks(h) ==
  LET i == InvoiceOf(h) IN
  /\ pc[h] # "forget"
  /\ pc[h] \in {"mark_refused", "mark_started", "reserve", "mark_rejected"} => Moved(i, 0, 0)
  /\ pc[h] \in {"mark_reserved", "execute", "mark_paid", "release"} => Moved(i, 1, 0)
  /\ pc[h] = "mark_compensated" => Moved(i, 1, 1)

InvoiceBooks(i) ==
  /\ StateOf(i) \in {"none", "rejected_insufficient_budget"} => Moved(i, 0, 0)
  /\ StateOf(i) = "compensated" => reserves[i] = releases[i]
  /\ StateOf(i) = "paid" => Moved(i, 1, 0)
  /\ StateOf(i) \in {"started", "reserved"} =>
       \E h \in Handlers : pc[h] \in BookPcs /\ InvoiceOf(h) = i

BooksInv ==
  /\ \A h \in Handlers : HandlerBooks(h)
  /\ \A i \in Invoices : InvoiceBooks(i)

\* A handler changes the books of its own invoice only.
LEMMA OwnBooksOnly ==
  ASSUME TypeOK, OneAtATime, BooksInv, NEW h \in Handlers, NEW i \in Invoices,
         pc[h] # "idle", InvoiceOf(h) = i,
         \A g \in Handlers : g # h => pc'[g] = pc[g] /\ call'[g] = call[g],
         \A j \in Invoices : j # i => /\ saga'[j] = saga[j]
                                      /\ reserves'[j] = reserves[j]
                                      /\ releases'[j] = releases[j],
         HandlerBooks(h)', InvoiceBooks(i)'
  PROVE  BooksInv'
<1>1. \A g \in Handlers : g # h => InvoiceOf(g)' = InvoiceOf(g)
  BY DEF InvoiceOf
<1>2. ASSUME NEW g \in Handlers, g # h PROVE HandlerBooks(g)'
  <2>1. CASE pc[g] = "idle"
    BY <2>1, <1>2 DEF HandlerBooks
  <2>2. CASE pc[g] # "idle"
    <3>1. PICK j \in Invoices : InvoiceOf(g) = j /\ j # i
      BY <1>2, <2>2, CallTyped DEF OneAtATime
    <3>2. /\ pc'[g] = pc[g] /\ InvoiceOf(g)' = j
          /\ reserves'[j] = reserves[j] /\ releases'[j] = releases[j]
      BY <1>1, <1>2, <3>1
    <3>3. HandlerBooks(g)
      BY DEF BooksInv
    <3>4. QED
      BY <3>1, <3>2, <3>3 DEF HandlerBooks, Moved
  <2>3. QED
    BY <2>1, <2>2
<1>3. ASSUME NEW j \in Invoices, j # i PROVE InvoiceBooks(j)'
  <2>1. /\ InvoiceBooks(j)
        /\ saga'[j] = saga[j] /\ reserves'[j] = reserves[j] /\ releases'[j] = releases[j]
    BY <1>3 DEF BooksInv
  <2>2. \A g \in Handlers : pc[g] \in BookPcs /\ InvoiceOf(g) = j =>
          pc'[g] \in BookPcs /\ InvoiceOf(g)' = j
    BY <1>1, <1>3
  <2>3. QED
    BY <2>1, <2>2 DEF InvoiceBooks, StateOf, Moved
<1>4. QED
  BY <1>2, <1>3 DEF BooksInv

\* Nothing that failed is forgotten.
LEMMA QuietBefore ==
  ASSUME TypeInv, [Next]_vars, Quiet'
  PROVE  /\ Quiet
         /\ \A h \in Handlers : ~Raise(h)
         /\ ~Crash
<1>1. /\ faults \in [AllFaultKinds -> Nat]
      /\ "call" \in AllFaultKinds /\ "crash" \in AllFaultKinds
  BY DEF TypeInv, TypeOK, AllFaultKinds
<1>2. faults'["call"] <= 0 /\ faults'["crash"] <= 0
  <2>1. faults' \in [AllFaultKinds -> Nat]
    BY TypeStep DEF TypeInv, TypeOK
  <2>2. QED
    BY <1>1, <2>1 DEF Quiet, Suffered
<1>3. ASSUME NEW kind, Fault(kind)
      PROVE  kind \notin {"call", "crash"} /\ ~Suffered({"call", "crash"})
  <2>1. faults' = [faults EXCEPT ![kind] = @ + 1]
    BY <1>3 DEF Fault
  <2>2. QED
    BY <1>1, <1>2, <2>1 DEF Suffered
<1>4. CASE UNCHANGED faults
  BY <1>1, <1>2, <1>3, <1>4, SequentialBefore DEF Quiet, Suffered, Raise, Crash
<1>5. CASE \E kind \in AllFaultKinds : Fault(kind)
  BY <1>3, <1>5, SequentialBefore DEF Quiet, Raise, Crash
<1>6. QED
  BY <1>4, <1>5
  DEF Next, Step, vars, Filter, Deliver, FirstTime, Load, Mark, Reserve, Execute, Release,
      Publish, Ack, Forget, Seed, Raise, RaiseInFirstTime, ForgetFails, Crash, Switch, AllFaultKinds


\* As long as nothing fails and deliveries of an invoice do not overlap, every step
\* keeps the books.
LEMMA BooksStep ==
  ASSUME TypeInv, SequentialInv, BooksInv, [Next]_vars, Quiet'
  PROVE  BooksInv'
<1> USE DEF TypeInv
<1>0. \A h \in Handlers : pc[h] # "idle" => InvoiceOf(h) \in Invoices
  BY CallTyped
<1>o. OneAtATime
  BY DEF SequentialInv
<1>m. BookPcs = {"reserve", "mark_rejected", "mark_reserved", "execute", "release",
                 "mark_compensated", "mark_paid"}
  BY DEF BookPcs, MoneyPcs
\* Steps of a handler that is not moving money, before and after.
<1>a. ASSUME NEW h \in Handlers, pc[h] # "idle", pc[h] \notin BookPcs,
             UNCHANGED <<saga, reserves, releases>>,
             \A g \in Handlers : g # h => pc'[g] = pc[g] /\ call'[g] = call[g],
             pc'[h] \notin MoneyPcs \cup {"mark_refused", "forget"}
      PROVE  BooksInv'
  <2>1. PICK i \in Invoices : InvoiceOf(h) = i
    BY <1>0, <1>a
  <2>2. HandlerBooks(h)'
    BY <1>a DEF HandlerBooks, MoneyPcs
  <2>3. \A g \in Handlers : pc[g] \in BookPcs /\ InvoiceOf(g) = i =>
          pc'[g] \in BookPcs /\ InvoiceOf(g)' = i
    BY <1>a DEF InvoiceOf
  <2>4. InvoiceBooks(i)'
    BY <1>a, <2>3 DEF BooksInv, InvoiceBooks, StateOf, Moved
  <2>5. QED
    BY <1>a, <1>o, <2>1, <2>2, <2>4, OwnBooksOnly
\* Steps of a handler that goes on with its own invoice.
<1>b. ASSUME NEW h \in Handlers, NEW i \in Invoices, pc[h] # "idle", InvoiceOf(h) = i,
             call'[h].event = call[h].event,
             \A g \in Handlers : g # h => pc'[g] = pc[g] /\ call'[g] = call[g],
             \A j \in Invoices : j # i => /\ saga'[j] = saga[j]
                                          /\ reserves'[j] = reserves[j]
                                          /\ releases'[j] = releases[j],
             InvoiceOf(h)' = i => HandlerBooks(h)',
             pc'[h] \notin BookPcs => StateOf(i)' \notin {"started", "reserved"},
             StateOf(i)' \in {"none", "rejected_insufficient_budget"} => Moved(i, 0, 0)',
             StateOf(i)' = "compensated" => reserves'[i] = releases'[i],
             StateOf(i)' = "paid" => Moved(i, 1, 0)'
      PROVE  BooksInv'
  <2>1. InvoiceOf(h)' = i
    BY <1>b DEF InvoiceOf
  <2>2. InvoiceBooks(i)'
    BY <1>b, <2>1 DEF InvoiceBooks
  <2>3. QED
    BY <1>b, <1>o, <2>1, <2>2, OwnBooksOnly
<1>1. CASE UNCHANGED <<saga, pc, call, reserves, releases>>
  <2>1. \A g \in Handlers : InvoiceOf(g)' = InvoiceOf(g)
    BY <1>1 DEF InvoiceOf
  <2>2. QED
    BY <1>1, <2>1 DEF BooksInv, HandlerBooks, InvoiceBooks, StateOf, Moved
<1>2. ASSUME NEW h \in Handlers, NEW e \in Events, Deliver(h, e) PROVE BooksInv'
  <2>1. /\ pc[h] = "idle" /\ pc'[h] = "first_time"
        /\ UNCHANGED <<saga, reserves, releases>>
        /\ \A g \in Handlers : g # h => pc'[g] = pc[g] /\ call'[g] = call[g]
    BY <1>2 DEF Deliver, Goto, TypeOK, stores, history
  <2>2. \A g \in Handlers : g # h => InvoiceOf(g)' = InvoiceOf(g)
    BY <2>1 DEF InvoiceOf
  <2>3. ASSUME NEW g \in Handlers PROVE HandlerBooks(g)'
    BY <2>1, <2>2 DEF BooksInv, HandlerBooks, Moved
  <2>4. ASSUME NEW i \in Invoices PROVE InvoiceBooks(i)'
    BY <1>m, <2>1, <2>2 DEF BooksInv, InvoiceBooks, StateOf, Moved
  <2>5. QED
    BY <2>3, <2>4 DEF BooksInv
<1>3. ASSUME NEW h \in Handlers,
             FirstTime(h) \/ Publish(h) \/ Ack(h) \/ RaiseInFirstTime(h)
      PROVE  BooksInv'
  BY <1>3, <1>a, <1>m
  DEF FirstTime, Publish, Ack, RaiseInFirstTime, Goto, Return, TypeOK, MoneyPcs, stores, history
<1>4. ASSUME NEW h \in Handlers, Load(h) PROVE BooksInv'
  <2> DEFINE record  == saga[InvoiceOf(h)]
             adopted == Adopted(call[h], record)
             next    == AfterLoad(adopted.event, record, adopted.amount)
  <2>1. pc[h] = "load" /\ UNCHANGED <<saga, reserves, releases>>
    BY <1>4 DEF Load, stores, history
  <2>i. PICK i \in Invoices : InvoiceOf(h) = i
    BY <1>0, <2>1
  <2>2. CASE Goto(h, "ack") /\ UNCHANGED call
    BY <1>a, <1>m, <2>1, <2>2 DEF Goto, TypeOK, MoneyPcs
  <2>3. CASE /\ ~IsTerminal(record)
             /\ Goto(h, next) /\ call' = [call EXCEPT ![h] = adopted]
    <3>1. StateOf(i) \notin {"started", "reserved"}
      <4>1. ASSUME NEW g \in Handlers, pc[g] \in BookPcs, InvoiceOf(g) = i PROVE FALSE
        <5>1. pc[g] # "idle" /\ g # h
          BY <1>m, <2>1, <4>1
        <5>2. QED
          BY <1>o, <2>1, <2>i, <4>1, <5>1 DEF OneAtATime
      <4>2. QED
        BY <4>1 DEF BooksInv, InvoiceBooks
    <3>2. saga[i] = NoSaga
      BY <2>i, <2>3, <3>1 DEF StateOf, IsTerminal, TypeOK, SagaRecord
    <3>3. Moved(i, 0, 0) /\ StateOf(i) = "none"
      BY <3>2 DEF BooksInv, InvoiceBooks, StateOf
    <3>4. next \in {"mark_refused", "mark_started"}
      BY <2>i, <3>2 DEF AfterLoad
    <3>5. adopted = call[h]
      BY <2>i, <3>2 DEF Adopted
    <3> HIDE DEF next, adopted
    <3>6. /\ pc'[h] = next /\ call'[h] = call[h]
          /\ \A g \in Handlers : g # h => pc'[g] = pc[g] /\ call'[g] = call[g]
      BY <2>3, <3>5 DEF Goto, TypeOK
    <3>7. InvoiceOf(h)' = i => HandlerBooks(h)'
      BY <2>1, <3>3, <3>4, <3>6 DEF HandlerBooks, Moved
    <3>8. StateOf(i)' = "none" /\ Moved(i, 0, 0)'
      BY <2>1, <3>3 DEF StateOf, Moved
    <3>9. QED
      BY <1>b, <2>1, <2>i, <3>6, <3>7, <3>8
  <2>4. QED
    BY <1>4, <2>2, <2>3 DEF Load
<1>5. ASSUME NEW h \in Handlers, Mark(h) PROVE BooksInv'
  <2>1. PICK m \in Marker :
          /\ pc[h] = m.at
          /\ Transition(h, m.writes)
          /\ Goto(h, m.next)
          /\ UNCHANGED <<call, reserves, releases>>
    BY <1>5 DEF Mark, history
  <2>2. /\ pc[h] # "idle"
        /\ m.writes \in {"started", "reserved"} \cup TerminalStates
    BY <2>1 DEF Marker, TerminalStates
  <2>i. PICK i \in Invoices : InvoiceOf(h) = i
    BY <1>0, <2>2
  <2>3. /\ pc'[h] = m.next
        /\ \A g \in Handlers : g # h => pc'[g] = pc[g]
        /\ \A j \in Invoices : j # i => saga'[j] = saga[j]
    BY <2>1, <2>i DEF Goto, TypeOK, Transition
  <2>4. StateOf(i)' = m.writes
    <3>1. saga' \in [Invoices -> SagaRecord \cup {NoSaga}]
      BY <2>1, <2>2, TransitionTyped
    <3>2. saga'[i] = IF saga[i] = NoSaga
                     THEN [state |-> m.writes, dept |-> call[h].dept, amount |-> call[h].amount]
                     ELSE [saga[i] EXCEPT !.state = m.writes]
      BY <2>1, <2>i DEF Transition, TypeOK
    <3>3. saga[i] # NoSaga => saga[i] \in SagaRecord
      BY DEF TypeOK
    <3>4. saga'[i].state = m.writes
      BY <3>2, <3>3 DEF SagaRecord
    <3>5. saga'[i] # NoSaga
      <4>1. call[h].dept \in Depts /\ call[h].amount \in Int
        BY <2>2, CallTyped
      <4>2. saga'[i] \in SagaRecord
        BY <2>2, <3>2, <3>3, <4>1 DEF SagaRecord
      <4>3. QED
        BY <4>2, SentinelAssumption
    <3>6. QED
      BY <3>4, <3>5 DEF StateOf
  <2>5. HandlerBooks(h)
    BY DEF BooksInv
  <2>6. Moved(i, 0, 0)' <=> Moved(i, 0, 0)
    BY <2>1 DEF Moved
  <2>7. Moved(i, 1, 0)' <=> Moved(i, 1, 0)
    BY <2>1 DEF Moved
  <2>8. InvoiceOf(h)' = i => HandlerBooks(h)'
    BY <2>1, <2>i, <2>3, <2>5, <2>6, <2>7 DEF HandlerBooks, Marker
  <2>9. /\ pc'[h] \notin BookPcs => m.writes \notin {"started", "reserved"}
        /\ m.writes # "none"
        /\ m.writes = "rejected_insufficient_budget" => Moved(i, 0, 0)
        /\ m.writes = "compensated" => reserves[i] = releases[i]
        /\ m.writes = "paid" => Moved(i, 1, 0)
    BY <1>m, <2>1, <2>i, <2>3, <2>5 DEF HandlerBooks, Marker, Moved
  <2>10. QED
    BY <1>b, <2>1, <2>2, <2>i, <2>3, <2>4, <2>6, <2>7, <2>8, <2>9
<1>6. ASSUME NEW h \in Handlers, Reserve(h) \/ Execute(h) \/ Release(h) PROVE BooksInv'
  <2>i. PICK i \in Invoices : InvoiceOf(h) = i
    BY <1>0, <1>6 DEF Reserve, Execute, Release
  <2>1. /\ pc[h] \in {"reserve", "execute", "release"}
        /\ UNCHANGED <<saga, call>>
        /\ \A g \in Handlers : g # h => pc'[g] = pc[g]
        /\ \A j \in Invoices : j # i => reserves'[j] = reserves[j] /\ releases'[j] = releases[j]
    BY <1>6, <2>i DEF Reserve, Execute, Release, Goto, TypeOK, history
  <2>2. StateOf(i) \in {"started", "reserved"} /\ StateOf(i)' = StateOf(i)
    BY <2>1, <2>i DEF SequentialInv, HandlerInv, StateOf
  <2>3. HandlerBooks(h)
    BY DEF BooksInv
  <2>4. pc'[h] \in BookPcs /\ (InvoiceOf(h)' = i => HandlerBooks(h)')
    <3>1. CASE Reserve(h)
      BY <1>m, <3>1, <2>i, <2>3 DEF Reserve, Goto, TypeOK, HandlerBooks, Moved
    <3>2. CASE Execute(h)
      BY <1>m, <3>2, <2>i, <2>3 DEF Execute, Goto, TypeOK, HandlerBooks, Moved, history
    <3>3. CASE Release(h)
      BY <1>m, <3>3, <2>i, <2>3 DEF Release, Goto, TypeOK, HandlerBooks, Moved
    <3>4. QED
      BY <1>6, <3>1, <3>2, <3>3
  <2>5. QED
    BY <1>b, <2>1, <2>i, <2>2, <2>4
<1>7. ASSUME NEW h \in Handlers, Forget(h) \/ ForgetFails(h) PROVE BooksInv'
  <2>1. pc[h] = "forget" /\ HandlerBooks(h)
    BY <1>7 DEF Forget, ForgetFails, BooksInv
  <2>2. QED
    BY <2>1 DEF HandlerBooks
<1>8. CASE (\E e \in Events : Filter(e)) \/ Seed \/ Switch \/ UNCHANGED vars
  BY <1>1, <1>8 DEF Filter, Seed, Switch, vars, stores, history
<1>9. ~Crash /\ \A h \in Handlers : ~Raise(h)
  BY QuietBefore
<1>10. QED
  BY <1>2, <1>3, <1>4, <1>5, <1>6, <1>7, <1>8, <1>9 DEF Next, Step

LEMMA BooksInvariant == Spec => [](Quiet => BooksInv)
<1>1. Init => BooksInv
  BY DEF Init, Fresh, BooksInv, HandlerBooks, InvoiceBooks, StateOf, Moved
<1>2. TypeInv /\ (Sequential => SequentialInv) /\ (Quiet => BooksInv) /\ [Next]_vars
        => (Quiet' => BooksInv')
  <2> SUFFICES ASSUME TypeInv, Sequential => SequentialInv, Quiet => BooksInv, [Next]_vars, Quiet'
               PROVE  BooksInv'
    OBVIOUS
  <2>1. Quiet
    BY QuietBefore
  <2>2. SequentialInv /\ BooksInv
    BY <2>1 DEF Quiet
  <2>3. QED
    BY <2>2, BooksStep
<1>3. QED
  BY <1>1, <1>2, TypeInvariant, SequentialInvariant, PTL DEF Spec


\* While nothing fails no reservation is released twice, or released and paid.
LEMMA BooksStand ==
  ASSUME TypeInv, SequentialInv, BooksInv
  PROVE  ReservationsStand
<1>1. ASSUME NEW i \in Invoices
      PROVE  releases[i] + (IF provider[i] = NoPayment THEN 0 ELSE 1) <= reserves[i]
  <2>1. InvoiceBooks(i) /\ InvoiceInv(i) /\ reserves[i] \in Nat /\ releases[i] \in Nat
    BY DEF BooksInv, SequentialInv, TypeInv, TypeOK
  <2>2. CASE StateOf(i) \in {"started", "reserved"}
    <3>1. PICK h \in Handlers : pc[h] \in BookPcs /\ InvoiceOf(h) = i
      BY <2>1, <2>2 DEF InvoiceBooks
    <3>2. HandlerBooks(h) /\ HandlerInv(h)
      BY DEF BooksInv, SequentialInv
    <3>3. CASE pc[h] \in {"reserve", "mark_rejected"}
      <4>1. Moved(i, 0, 0) /\ StateOf(i) = "started"
        BY <3>1, <3>2, <3>3 DEF HandlerBooks, HandlerInv
      <4>2. QED
        BY <2>1, <4>1 DEF Moved, InvoiceInv
    <3>4. CASE pc[h] \in {"mark_reserved", "execute", "mark_paid", "release"}
      BY <3>1, <3>2, <3>4 DEF HandlerBooks, Moved
    <3>5. CASE pc[h] = "mark_compensated"
      BY <3>1, <3>2, <3>5 DEF HandlerBooks, HandlerInv, Moved
    <3>6. QED
      BY <3>1, <3>3, <3>4, <3>5 DEF BookPcs, MoneyPcs
  <2>3. CASE StateOf(i) \notin {"started", "reserved"}
    <3>1. StateOf(i) \in {"none"} \cup TerminalStates
      BY <2>3 DEF StateOf, TypeInv, TypeOK, SagaRecord
    <3>2. QED
      BY <2>1, <3>1 DEF InvoiceBooks, InvoiceInv, Moved, TerminalStates
  <2>4. QED
    BY <2>2, <2>3
<1>2. QED
  BY <1>1 DEF ReservationsStand

\* A payment that was executed has a reservation behind it that was not released,
\* while no call fails and deliveries do not overlap, or whatever fails and overlaps
\* as long as the cause of a decline stands (PaymentIsReserved).
THEOREM PaymentsAreReserved == Spec => []PaymentIsReserved
<1>1. TypeInv /\ ReservationInv /\ CauseInv /\ (Sequential => SequentialInv)
      /\ (Quiet => BooksInv) => PaymentIsReserved
  <2> SUFFICES ASSUME TypeInv, ReservationInv, CauseInv, Sequential => SequentialInv,
                      Quiet => BooksInv, NEW i \in Invoices, provider[i] # NoPayment,
                      Quiet \/ CauseStands(i)
               PROVE  reserves[i] > releases[i]
    BY DEF PaymentIsReserved, Quiet
  <2>1. reserves[i] \in Nat /\ releases[i] \in Nat
    BY DEF TypeInv, TypeOK
  <2>2. CASE Quiet
    <3>1. ReservationsStand
      BY <2>2, BooksStand DEF Quiet
    <3>2. QED
      BY <2>1, <3>1 DEF ReservationsStand
  <2>3. CASE CauseStands(i)
    BY <2>1, <2>3 DEF CauseInv, ReservationInv
  <2>4. QED
    BY <2>2, <2>3
<1>2. QED
  BY <1>1, TypeInvariant, ReservationInvariant, CauseInvariant, SequentialInvariant,
     BooksInvariant, PTL

\* What was paid from a department, invoice by invoice.
Paid(d) ==
  [i \in Invoices |-> IF i \in PaidFrom(d) THEN provider[i].amount ELSE 0]

LEMMA SpentIsPaid ==
  ASSUME TypeOK, NEW d
  PROVE  /\ Spent(d) = SumFunctionOnSet(Paid(d), Invoices)
         /\ Paid(d) \in [Invoices -> Int]
<1> DEFINE p == [i \in PaidFrom(d) |-> provider[i].amount]
           q == Paid(d)
<1>1. PaidFrom(d) \in SUBSET Invoices
  BY DEF PaidFrom
<1>2. \A i \in PaidFrom(d) : provider[i].amount \in Int
  BY DEF PaidFrom, TypeOK, Payment
<1>3. /\ \A i \in PaidFrom(d) : p[i] \in Int /\ q[i] = p[i]
      /\ \A i \in Invoices \ PaidFrom(d) : q[i] = 0
  BY <1>1, <1>2 DEF Paid
<1>4. Spent(d) = SumFunctionOnSet(p, PaidFrom(d))
  BY DEF Spent, SumFunction
<1>5. q \in [Invoices -> Int]
  BY <1>1, <1>2 DEF Paid
<1> HIDE DEF p, q
<1>6. SumFunctionOnSet(q, Invoices) = SumFunctionOnSet(p, PaidFrom(d))
  BY <1>1, <1>3, SumPadded, InvoicesAssumption
<1>7. QED
  BY <1>4, <1>5, <1>6 DEF q

\* A department that has a budget: it is what the ledger says.
LEMMA BudgetByLedger ==
  ASSUME TypeOK, LedgerInv, NEW d \in Depts, budget[d] # NoBudget
  PROVE  /\ budget[d] = Start(d) - SumFunctionOnSet(Held(d), Invoices)
         /\ Start(d) \in Nat
<1>1. Seeded(budget)[d] = budget[d]
  BY DEF Seeded
<1>2. QED
  BY <1>1, BudgetAssumption DEF LedgerInv, Balanced, Reserved, Start

\* The budget is on the safe side (FailsSafe): whatever is in flight and whatever
\* fails, as long as nothing is released twice, or released and paid.
THEOREM BudgetsFailSafe == Spec => []FailsSafe
<1>1. TypeInv /\ ReservationInv /\ AskedInv /\ (Sequential => SequentialInv)
      /\ ((Sequential \/ Unanimous) => LedgerInv) /\ (Quiet => BooksInv) => FailsSafe
  <2> SUFFICES ASSUME TypeInv, ReservationInv, AskedInv, Sequential => SequentialInv,
                      (Sequential \/ Unanimous) => LedgerInv, Quiet => BooksInv,
                      Quiet \/ ((Sequential \/ Unanimous) /\ ReservationsStand),
                      NEW d \in Depts, budget[d] # NoBudget
               PROVE  budget[d] + Spent(d) <= Start(d)
    BY DEF FailsSafe, Quiet
  <2> USE DEF TypeInv
  <2>1. Sequential \/ Unanimous
    BY DEF Quiet
  <2>2. LedgerInv /\ ReservationsStand
    BY <2>1, BooksStand DEF Quiet
  <2>3. ASSUME NEW i \in Invoices PROVE Paid(d)[i] <= Held(d)[i]
    <3>1. /\ reserves[i] \in Nat /\ releases[i] \in Nat
          /\ releases[i] <= reserves[i]
          /\ saga[i] # NoSaga => saga[i].amount \in Int
          /\ reserves[i] > 0 => saga[i].amount > 0
      BY <2>2 DEF TypeOK, SagaRecord, ReservationsStand, LedgerInv
    <3>2. CASE i \in PaidFrom(d)
      <4>1. /\ saga[i] # NoSaga /\ saga[i].dept = d
            /\ provider[i].amount = saga[i].amount
        BY <2>1, <3>2, Agreement DEF PaidFrom
      <4>2. reserves[i] - releases[i] >= 1 /\ reserves[i] > 0
        BY <2>2, <3>1, <3>2 DEF ReservationsStand, PaidFrom
      <4>3. \A a, n \in Int : a > 0 /\ n >= 1 => a <= a * n
        OBVIOUS
      <4>4. saga[i].amount <= saga[i].amount * (reserves[i] - releases[i])
        BY <3>1, <4>1, <4>2, <4>3
      <4>5. QED
        BY <3>2, <4>1, <4>4 DEF Paid, Held
    <3>3. CASE i \notin PaidFrom(d)
      <4>1. \A a, n \in Int : a > 0 /\ n >= 0 => 0 <= a * n
        OBVIOUS
      <4>2. \A a \in Int : a * (0 - 0) = 0
        OBVIOUS
      <4>3. saga[i] # NoSaga => 0 <= saga[i].amount * (reserves[i] - releases[i])
        <5>1. CASE reserves[i] = 0
          <6>1. releases[i] = 0
            BY <3>1, <5>1
          <6>2. QED
            BY <3>1, <4>2, <5>1, <6>1
        <5>2. CASE reserves[i] > 0
          BY <3>1, <4>1, <5>2
        <5>3. QED
          BY <3>1, <5>1, <5>2
      <4>4. QED
        BY <3>3, <4>3 DEF Paid, Held
    <3>4. QED
      BY <3>2, <3>3
  <2> DEFINE p == Paid(d)
             q == Held(d)
  <2>4. \A i \in Invoices : p[i] \in Int /\ q[i] \in Int
    BY SpentIsPaid, HeldTyped
  <2>5. /\ Spent(d) = SumFunctionOnSet(p, Invoices)
        /\ budget[d] = Start(d) - SumFunctionOnSet(q, Invoices)
        /\ Start(d) \in Nat
    BY <2>2, SpentIsPaid, BudgetByLedger
  <2>6. \A i \in Invoices : p[i] <= q[i]
    BY <2>3
  <2> HIDE DEF p, q
  <2>7. SumFunctionOnSet(p, Invoices) <= SumFunctionOnSet(q, Invoices)
    BY <2>4, <2>6, SumMonotone, InvoicesAssumption
  <2>8. SumFunctionOnSet(p, Invoices) \in Int /\ SumFunctionOnSet(q, Invoices) \in Int
    BY <2>4, SumTyped, InvoicesAssumption
  <2>9. QED
    BY <2>5, <2>7, <2>8
<1>2. QED
  BY <1>1, TypeInvariant, ReservationInvariant, AskedInvariant, SequentialInvariant,
     LedgerInvariant, BooksInvariant, PTL

\* Once every event is handled and nothing failed, every budget is what was there at
\* the start less what was really paid (BooksBalance).
THEOREM BooksBalanceAtRest == Spec => []BooksBalance
<1>1. TypeInv /\ AskedInv /\ (Sequential => SequentialInv)
      /\ ((Sequential \/ Unanimous) => LedgerInv) /\ (Quiet => BooksInv) => BooksBalance
  <2> SUFFICES ASSUME TypeInv, AskedInv, SequentialInv, LedgerInv, BooksInv,
                      AtRest, Sequential, NEW d \in Depts, budget[d] # NoBudget
               PROVE  budget[d] = Start(d) - Spent(d)
    BY DEF BooksBalance, Quiet
  <2> USE DEF TypeInv
  <2>1. ASSUME NEW i \in Invoices PROVE Held(d)[i] = Paid(d)[i]
    <3>1. /\ InvoiceBooks(i) /\ InvoiceInv(i)
          /\ reserves[i] \in Nat /\ releases[i] \in Nat
          /\ saga[i] # NoSaga => saga[i] \in SagaRecord
      BY DEF BooksInv, SequentialInv, TypeOK
    <3>2. StateOf(i) \notin {"started", "reserved"}
      BY <3>1 DEF InvoiceBooks, AtRest, BookPcs, MoneyPcs
    <3>3. CASE StateOf(i) = "paid"
      <4>1. /\ saga[i] # NoSaga /\ provider[i] # NoPayment
            /\ provider[i].dept = saga[i].dept /\ provider[i].amount = saga[i].amount
            /\ reserves[i] = 1 /\ releases[i] = 0 /\ saga[i].amount \in Int
        BY <3>1, <3>3, Agreement DEF InvoiceInv, InvoiceBooks, Moved, SagaRecord
      <4>2. \A a \in Int : a * (1 - 0) = a
        OBVIOUS
      <4>3. saga[i].amount * (reserves[i] - releases[i]) = saga[i].amount
        BY <4>1, <4>2
      <4>4. QED
        BY <4>1, <4>3 DEF Held, Paid, PaidFrom
    <3>4. CASE StateOf(i) # "paid"
      <4>1. StateOf(i) \in {"none", "compensated", "rejected_insufficient_budget"}
        BY <3>1, <3>2, <3>4 DEF StateOf, SagaRecord, TerminalStates
      <4>2. provider[i] = NoPayment /\ reserves[i] = releases[i]
        BY <3>1, <4>1 DEF InvoiceInv, InvoiceBooks, Moved
      <4>3. \A a, n \in Int : a * (n - n) = 0
        OBVIOUS
      <4>4. saga[i] # NoSaga => saga[i].amount * (reserves[i] - releases[i]) = 0
        BY <3>1, <4>2, <4>3 DEF SagaRecord
      <4>5. QED
        BY <4>2, <4>4 DEF Held, Paid, PaidFrom
    <3>5. QED
      BY <3>3, <3>4
  <2>2. Held(d) = Paid(d)
    BY <2>1 DEF Held, Paid
  <2>3. /\ Spent(d) = SumFunctionOnSet(Paid(d), Invoices)
        /\ budget[d] = Start(d) - SumFunctionOnSet(Held(d), Invoices)
    BY SpentIsPaid, BudgetByLedger
  <2>4. QED
    BY <2>2, <2>3
<1>2. QED
  BY <1>1, TypeInvariant, AskedInvariant, SequentialInvariant, LedgerInvariant,
     BooksInvariant, PTL

================================================================================

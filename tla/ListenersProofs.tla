----------------------------- MODULE ListenersProofs -----------------------------
(***************************************************************************)
(* What holds of Audit and Notification for every story of events, every   *)
(* number of handlers and of calls of the endpoint, and every fault.       *)
(***************************************************************************)
EXTENDS Listeners, Sequences, Sums

--------------------------------------------------------------------------------
(* What is assumed of the constants, and the two halves of a behaviour.     *)

LEMMA AuditAssumed ==
  /\ None \notin Events
  /\ AuditStory \in [Events -> Audit!PayloadType]
BY ListenersAssumption DEF Audit!SubscriberAssumption, Audit!AuditAssumption

LEMMA NotificationAssumed == None \notin Events /\ IsFiniteSet(Events)
BY ListenersAssumption
   DEF Notification!SubscriberAssumption, Notification!NotificationAssumption,
       Notification!IsFiniteSet, IsFiniteSet

\* The service that runs is the one that ran.
LEMMA OneListener ==
  ASSUME [Next]_vars
  PROVE  /\ listener' = listener
         /\ listener = "audit" => [Audit!Next]_vars
         /\ listener = "notification" => [Notification!Next]_vars
BY DEF Next, vars

--------------------------------------------------------------------------------
(* Audit: lists that only grow.                                             *)

\* Added leaves what is there in place, and repeats nothing.
LEMMA AddedGrows ==
  ASSUME NEW entries \in Seq(Events), NEW e \in Events, NEW same,
         NEW new, new = Audit!Added(entries, e, same)
  PROVE  /\ new \in Seq(Events)
         /\ Len(entries) <= Len(new)
         /\ \A n \in DOMAIN entries : n \in DOMAIN new /\ new[n] = entries[n]
         /\ \A n \in DOMAIN new :
              n \in DOMAIN entries
                \/ /\ n = Len(entries) + 1 /\ new[n] = e
                   /\ \A m \in DOMAIN entries : entries[m] \notin same
<1>1. CASE \E n \in DOMAIN entries : entries[n] \in same
  BY <1>1 DEF Audit!Added
<1>2. CASE ~ \E n \in DOMAIN entries : entries[n] \in same
  <2>1. new = Append(entries, e)
    BY <1>2 DEF Audit!Added
  <2> QED BY <1>2, <2>1
<1> QED BY <1>1, <1>2

\* It holds what is added, or one that counts as the same.
LEMMA AddedHolds ==
  ASSUME NEW entries \in Seq(Events), NEW e \in Events, NEW same, e \in same,
         NEW new, new = Audit!Added(entries, e, same)
  PROVE  \E n \in DOMAIN new : new[n] \in same
<1>1. CASE \E n \in DOMAIN entries : entries[n] \in same
  BY <1>1 DEF Audit!Added
<1>2. CASE ~ \E n \in DOMAIN entries : entries[n] \in same
  <2>1. new = Append(entries, e)
    BY <1>2 DEF Audit!Added
  <2>2. /\ Len(entries) + 1 \in DOMAIN Append(entries, e)
        /\ Append(entries, e)[Len(entries) + 1] = e
    OBVIOUS
  <2> QED BY <2>1, <2>2
<1> QED BY <1>1, <1>2

\* Contains looks at the whole sequence.
LEMMA ContainsIsIn ==
  ASSUME NEW entries \in Seq(Events), NEW e
  PROVE  Audit!Contains(entries, e) <=> \E n \in DOMAIN entries : entries[n] = e
<1>1. DOMAIN entries = 1 .. Len(entries)
  OBVIOUS
<1> QED BY <1>1, Zenon DEF Audit!Contains

--------------------------------------------------------------------------------
(* Audit: type correctness.                                                 *)

\* The shell keeps its types whatever the work is, as the calls of the work are pcs.
LEMMA ShellTyped ==
  ASSUME Audit!TypeOK, NEW h \in Handlers,
         \/ \E e \in Events : Audit!Deliver(h, e)
         \/ Audit!FirstTime(h, "append") \/ Audit!Ack(h) \/ Audit!Forget(h)
         \/ Audit!Raise(h, Audit!Body) \/ Audit!RaiseInFirstTime(h) \/ Audit!ForgetFails(h),
         UNCHANGED <<Audit!records, counted, reports>>
  PROVE  Audit!TypeOK'
<1> USE AuditAssumed
<1>f. \A kind : Audit!Fault(kind) => faults' \in [Audit!AllFaultKinds -> Nat]
  BY DEF Audit!Fault, Audit!AllFaultKinds, Audit!TypeOK
<1>r. UNCHANGED <<trail, index, counted, reports>>
  BY DEF Audit!records
<1>1. ASSUME NEW e \in Events, Audit!Deliver(h, e) PROVE Audit!TypeOK'
  BY <1>1, <1>f, <1>r DEF Audit!Deliver, Audit!Goto, Audit!TypeOK
<1>2. CASE Audit!FirstTime(h, "append")
  BY <1>2, <1>r DEF Audit!FirstTime, Audit!Goto, Audit!TypeOK, Audit!Body
<1>3. CASE Audit!Ack(h)
  BY <1>3, <1>r DEF Audit!Ack, Audit!Leave, Audit!Goto, Audit!TypeOK
<1>4. CASE Audit!Forget(h)
  BY <1>4, <1>r DEF Audit!Forget, Audit!Leave, Audit!Goto, Audit!TypeOK
<1>5. CASE Audit!Raise(h, Audit!Body)
  BY <1>5, <1>f, <1>r DEF Audit!Raise, Audit!Goto, Audit!TypeOK, Audit!Body
<1>6. CASE Audit!RaiseInFirstTime(h)
  BY <1>6, <1>f, <1>r DEF Audit!RaiseInFirstTime, Audit!Leave, Audit!Goto, Audit!TypeOK
<1>7. CASE Audit!ForgetFails(h)
  BY <1>7, <1>f, <1>r DEF Audit!ForgetFails, Audit!Leave, Audit!Goto, Audit!TypeOK
<1> QED BY <1>1, <1>2, <1>3, <1>4, <1>5, <1>6, <1>7

\* A step of the work, whether its answer arrives or not.
LEMMA CommitTyped ==
  ASSUME Audit!TypeOK, NEW h \in Handlers, NEW at \in Audit!Body,
         NEW next \in {"index", "ack"}, Audit!Commits(h, at, next),
         trail' \in [Invoices -> Seq(Events)], index' \in Seq(Events),
         UNCHANGED <<counted, reports>>
  PROVE  Audit!TypeOK'
<1> USE AuditAssumed
<1>1. CASE Audit!Works(h, at, next)
  BY <1>1 DEF Audit!Works, Audit!Goto, Audit!TypeOK, Audit!Body
<1>2. CASE Audit!Raise(h, {at})
  <2>1. faults' \in [Audit!AllFaultKinds -> Nat]
    BY <1>2 DEF Audit!Raise, Audit!Fault, Audit!AllFaultKinds, Audit!TypeOK
  <2> QED BY <1>2, <2>1 DEF Audit!Raise, Audit!Goto, Audit!TypeOK, Audit!Body
<1> QED BY <1>1, <1>2 DEF Audit!Commits

\* A handler on its way holds an event of an invoice.
LEMMA EventTyped ==
  ASSUME Audit!TypeOK, NEW h \in Handlers, NEW at \in Audit!Body, NEW next,
         Audit!Commits(h, at, next)
  PROVE  /\ event[h] \in Events
         /\ AuditStory[event[h]].invoice \in Invoices
BY AuditAssumed
  
        DEF Audit!PayloadType, Audit!TypeOK, Audit!Commits, Audit!Works, Audit!Raise,
            Audit!Body

\* What an entry adds to the trail, and a row to the index.
LEMMA TrailGrows ==
  ASSUME Audit!TypeOK, NEW h \in Handlers, Audit!AppendEntry(h)
  PROVE  LET e == event[h]
             i == AuditStory[e].invoice
         IN /\ e \in Events /\ i \in Invoices
            /\ trail' = [trail EXCEPT ![i] = Audit!Added(trail[i], e, {e})]
            /\ UNCHANGED <<index, counted, reports>>
            /\ Audit!TypeOK'
<1> DEFINE e == event[h]
           i == AuditStory[e].invoice
           next == IF Audit!IsAutoApproval(e) THEN "index" ELSE "ack"
<1>1. /\ Audit!Commits(h, "append", next)
      /\ trail' = [trail EXCEPT ![i] = Audit!Added(trail[i], e, {e})]
      /\ UNCHANGED <<index, counted, reports>>
  BY DEF Audit!AppendEntry
<1>2. e \in Events /\ i \in Invoices
  BY <1>1, EventTyped DEF Audit!Body
<1>3. trail' \in [Invoices -> Seq(Events)]
  <2>1. trail[i] \in Seq(Events)
    BY <1>2 DEF Audit!TypeOK
  <2>2. Audit!Added(trail[i], e, {e}) \in Seq(Events)
    BY <1>2, <2>1, AddedGrows
  <2> QED BY <1>1, <2>2 DEF Audit!TypeOK
<1>4. next \in {"index", "ack"}
  OBVIOUS
<1>5. index' \in Seq(Events)
  BY <1>1 DEF Audit!TypeOK
<1> HIDE DEF next
<1> QED BY <1>1, <1>2, <1>3, <1>4, <1>5, CommitTyped DEF Audit!Body

LEMMA IndexGrows ==
  ASSUME Audit!TypeOK, NEW h \in Handlers, Audit!AppendRow(h)
  PROVE  LET e == event[h] IN
         /\ e \in Events
         /\ index' = Audit!Added(index, e, {x \in Events : AuditStory[x].invoice = AuditStory[e].invoice})
         /\ UNCHANGED <<trail, counted, reports>>
         /\ Audit!TypeOK'
<1> DEFINE e == event[h]
           same == {x \in Events : AuditStory[x].invoice = AuditStory[e].invoice}
<1>1. /\ Audit!Commits(h, "index", "ack")
      /\ index' = Audit!Added(index, e, same)
      /\ UNCHANGED <<trail, counted, reports>>
  BY DEF Audit!AppendRow
<1>2. e \in Events
  BY <1>1, EventTyped DEF Audit!Body
<1>3. index \in Seq(Events)
  BY DEF Audit!TypeOK
<1>4. index' \in Seq(Events)
  <2> HIDE DEF same
  <2> QED BY <1>1, <1>2, <1>3, AddedGrows
<1>5. trail' \in [Invoices -> Seq(Events)]
  BY <1>1 DEF Audit!TypeOK
<1> QED BY <1>1, <1>2, <1>4, <1>5, CommitTyped DEF Audit!Body

\* A call of the endpoint reports numbers.
LEMMA ReportTyped ==
  ASSUME Audit!TypeOK, NEW a \in Auditors, Audit!FindViolations(a)
  PROVE  /\ counted[a] \in Seq(Events)
         /\ \A rows \in {index, <<>>} :
              Audit!Compliance(counted[a], rows) \in [checked : Nat, violations : SUBSET Nat]
<1>1. counted[a] \in Seq(Events) /\ index \in Seq(Events) /\ <<>> \in Seq(Events)
  BY DEF Audit!FindViolations, Audit!TypeOK
<1>2. \A rows \in {index, <<>>} : Audit!Violations(rows) \in SUBSET Nat
  BY <1>1 DEF Audit!Violations
<1> QED BY <1>1, <1>2 DEF Audit!Compliance

\* Every step preserves the types.
LEMMA AuditTypeStep ==
  ASSUME Audit!TypeOK, [Audit!Next]_vars
  PROVE  Audit!TypeOK'
<1>1. ASSUME UNCHANGED <<Audit!records, counted, reports>>, NEW h \in Handlers,
             (\E e \in Events : Audit!Deliver(h, e)) \/ Audit!ShellStep(h) \/ Audit!ShellFault(h)
      PROVE  Audit!TypeOK'
  BY <1>1, ShellTyped DEF Audit!ShellStep, Audit!ShellFault
<1>2. CASE Audit!Crash /\ UNCHANGED <<Audit!records, counted, reports>>
  BY <1>2, AuditAssumed
     DEF Audit!Crash, Audit!Fault, Audit!AllFaultKinds, Audit!TypeOK, Audit!records
<1>3. ASSUME NEW h \in Handlers, Audit!AppendEntry(h) PROVE Audit!TypeOK'
  BY <1>3, TrailGrows
<1>4. ASSUME NEW h \in Handlers, Audit!AppendRow(h) PROVE Audit!TypeOK'
  BY <1>4, IndexGrows
<1>r. \A rows : Audit!Reads(rows) => faults' \in [Audit!AllFaultKinds -> Nat]
  <2>1. faults \in [Audit!AllFaultKinds -> Nat] /\ "miss" \in Audit!AllFaultKinds
    BY DEF Audit!TypeOK, Audit!AllFaultKinds
  <2>2. ASSUME NEW rows, Audit!Reads(rows)
        PROVE  faults' = faults \/ faults' = [faults EXCEPT !["miss"] = @ + 1]
    BY <2>2 DEF Audit!Reads, Audit!Fault
  <2> QED BY <2>1, <2>2
<1>5. ASSUME NEW a \in Auditors, Audit!CountRows(a) PROVE Audit!TypeOK'
  <2>1. PICK rows \in {index, <<>>} :
          Audit!Reads(rows) /\ counted' = [counted EXCEPT ![a] = rows]
    BY <1>5 DEF Audit!CountRows
  <2>2. faults' \in [Audit!AllFaultKinds -> Nat]
    BY <1>r, <2>1
  <2>3. index \in Seq(Events) /\ <<>> \in Seq(Events)
    BY DEF Audit!TypeOK
  <2>4. counted' = [counted EXCEPT ![a] = index] \/ counted' = [counted EXCEPT ![a] = <<>>]
    BY <2>1
  <2>5. counted' \in [Auditors -> Seq(Events) \cup {None}]
    BY <2>3, <2>4 DEF Audit!TypeOK
  <2> QED BY <1>5, <2>2, <2>5 DEF Audit!CountRows, Audit!TypeOK, Audit!records
<1>6. ASSUME NEW a \in Auditors, Audit!FindViolations(a) PROVE Audit!TypeOK'
  BY <1>6, <1>r, ReportTyped DEF Audit!FindViolations, Audit!TypeOK, Audit!records
<1>7. CASE UNCHANGED vars
  BY <1>7 DEF vars, Audit!shell, Audit!records, Audit!TypeOK
<1> QED BY <1>1, <1>2, <1>3, <1>4, <1>5, <1>6, <1>7 DEF Audit!Next

LEMMA AuditTypeInit == Audit!Init => Audit!TypeOK
BY DEF Audit!Init, Audit!ShellFresh, Audit!TypeOK

AuditTyped == listener = "audit" => Audit!TypeOK

\* The stores, the shell and the reports of the audit service keep their types.
THEOREM AuditTypeCorrect == Spec => []AuditTyped
<1>1. Init => AuditTyped
  BY AuditTypeInit DEF Init, AuditTyped
<1>2. AuditTyped /\ [Next]_vars => AuditTyped'
  BY AuditTypeStep, OneListener DEF AuditTyped
<1> QED BY <1>1, <1>2, PTL DEF Spec

--------------------------------------------------------------------------------
(* Audit: faults are counted, and never forgotten.                          *)

\* A fault is counted under its kind, and a count never falls.
LEMMA AuditFaultCounted ==
  ASSUME Audit!TypeOK, NEW kind, Audit!Fault(kind)
  PROVE  /\ kind \in Audit!AllFaultKinds
         /\ faults'[kind] > 0
         /\ \A k \in Audit!AllFaultKinds : faults[k] > 0 => faults'[k] > 0
BY DEF Audit!TypeOK, Audit!Fault, Audit!AllFaultKinds

LEMMA AuditFaultsStay ==
  ASSUME Audit!TypeOK, [Audit!Next]_vars
  PROVE  \A k \in Audit!AllFaultKinds : faults[k] > 0 => faults'[k] > 0
<1>1. CASE UNCHANGED faults
  BY <1>1
<1>2. CASE \E kind \in Audit!AllFaultKinds : Audit!Fault(kind)
  BY <1>2, AuditFaultCounted
<1> QED
  BY <1>1, <1>2
  DEF Audit!Next, vars, Audit!Deliver, Audit!FirstTime, Audit!Ack, Audit!Forget, Audit!Raise,
      Audit!RaiseInFirstTime, Audit!ForgetFails, Audit!Crash, Audit!ShellStep, Audit!ShellFault,
      Audit!AppendEntry, Audit!AppendRow, Audit!Commits, Audit!Works, Audit!CountRows,
      Audit!FindViolations, Audit!Reads, Audit!shell, Audit!AllFaultKinds

--------------------------------------------------------------------------------
(* Nothing is recorded twice.  RecordedOnce is inductive.                   *)

LEMMA RecordedStep ==
  ASSUME Audit!TypeOK, Audit!RecordedOnce, [Audit!Next]_vars
  PROVE  Audit!RecordedOnce'
<1>1. ASSUME NEW h \in Handlers, Audit!AppendEntry(h) PROVE Audit!RecordedOnce'
  <2> DEFINE e == event[h]
             i == AuditStory[e].invoice
  <2>1. /\ e \in Events /\ i \in Invoices
        /\ trail' = [trail EXCEPT ![i] = Audit!Added(trail[i], e, {e})]
        /\ UNCHANGED index
    BY <1>1, TrailGrows
  <2> HIDE DEF e, i
  <2>2. trail[i] \in Seq(Events) /\ trail'[i] = Audit!Added(trail[i], e, {e})
    BY <2>1 DEF Audit!TypeOK
  <2>3. Audit!IsInjective(trail'[i])
    BY <2>1, <2>2, AddedGrows DEF Audit!RecordedOnce, Audit!IsInjective
  <2>4. \A j \in Invoices \ {i} : trail'[j] = trail[j]
    BY <2>1 DEF Audit!TypeOK
  <2> QED BY <2>1, <2>3, <2>4 DEF Audit!RecordedOnce
<1>2. ASSUME NEW h \in Handlers, Audit!AppendRow(h) PROVE Audit!RecordedOnce'
  <2> DEFINE e == event[h]
             same == {x \in Events : AuditStory[x].invoice = AuditStory[e].invoice}
  <2>1. e \in Events /\ index' = Audit!Added(index, e, same) /\ UNCHANGED trail
    BY <1>2, IndexGrows
  <2>2. \A x \in Events : x \in same <=> AuditStory[x].invoice = AuditStory[e].invoice
    OBVIOUS
  <2> HIDE DEF e, same
  <2>3. index \in Seq(Events) /\ \A n \in DOMAIN index : index[n] \in Events
    BY DEF Audit!TypeOK
  <2>4. /\ \A n \in DOMAIN index : n \in DOMAIN index' /\ index'[n] = index[n]
        /\ \A n \in DOMAIN index' :
             n \in DOMAIN index
               \/ /\ n = Len(index) + 1 /\ index'[n] = e
                  /\ \A m \in DOMAIN index : index[m] \notin same
    BY <2>1, <2>3, AddedGrows
  <2> QED BY <2>1, <2>2, <2>3, <2>4 DEF Audit!RecordedOnce
<1>3. CASE UNCHANGED Audit!records
  BY <1>3 DEF Audit!records, Audit!RecordedOnce
<1> QED BY <1>1, <1>2, <1>3
        DEF Audit!Next, vars, Audit!records, Audit!CountRows, Audit!FindViolations

\* However often an event is delivered and whatever fails in between, it is in the
\* trail once, and its invoice in the index once (RecordedOnce).
THEOREM ReplaysRecordNothing == Spec => []RecordedOnce
<1>1. Init => RecordedOnce
  BY DEF Init, Audit!Init, RecordedOnce, Audit!RecordedOnce, Audit!IsInjective
<1>2. AuditTyped /\ RecordedOnce /\ [Next]_vars => RecordedOnce'
  BY RecordedStep, OneListener DEF AuditTyped, RecordedOnce
<1> QED BY <1>1, <1>2, AuditTypeCorrect, PTL DEF Spec

--------------------------------------------------------------------------------
(* The proof of the endpoint.  Between its two reads the index may grow, and *)
(* what was counted stays where it is, as long as the second read finds it.  *)

ProofInv ==
  /\ \A a \in Auditors : counted[a] # None => Len(counted[a]) <= Len(index)
  /\ \A r \in reports :
       /\ r.checked <= Len(index)
       /\ ~Audit!Suffered({"miss"}) =>
            (r.violations = {} => \A n \in 1 .. r.checked : ~Audit!Violates(index[n]))

\* A read that missed stays on record.
LEMMA MissesStay ==
  ASSUME Audit!TypeOK, [Audit!Next]_vars, ~Audit!Suffered({"miss"})'
  PROVE  ~Audit!Suffered({"miss"}) /\ ~Audit!Fault("miss")
<1>1. \A k \in Audit!AllFaultKinds : faults[k] > 0 => faults'[k] > 0
  BY AuditFaultsStay
<1>2. Audit!Fault("miss") => faults'["miss"] > 0
  BY AuditFaultCounted
<1> QED BY <1>1, <1>2 DEF Audit!Suffered, Audit!AllFaultKinds

LEMMA ProofStep ==
  ASSUME Audit!TypeOK, ProofInv, [Audit!Next]_vars
  PROVE  ProofInv'
<1>t. /\ index \in Seq(Events) /\ Len(index) \in Nat /\ DOMAIN index = 1 .. Len(index)
      /\ \A r \in reports : r.checked \in Nat
      /\ \A a \in Auditors : counted[a] # None =>
           counted[a] \in Seq(Events) /\ Len(counted[a]) \in Nat
  BY DEF Audit!TypeOK
<1>1. ASSUME NEW h \in Handlers, Audit!AppendRow(h) PROVE ProofInv'
  <2> DEFINE e == event[h]
             same == {x \in Events : AuditStory[x].invoice = AuditStory[e].invoice}
  <2>1. e \in Events /\ index' = Audit!Added(index, e, same) /\ UNCHANGED <<counted, reports>>
    BY <1>1, IndexGrows
  <2> HIDE DEF e, same
  <2>2. /\ index' \in Seq(Events) /\ Len(index) <= Len(index')
        /\ \A n \in DOMAIN index : index'[n] = index[n]
    BY <2>1, <1>t, AddedGrows
  <2>3. Len(index') \in Nat
    BY <2>2
  <2>4. \A a \in Auditors : counted[a] # None => Len(counted[a]) <= Len(index')
    BY <1>t, <2>2, <2>3 DEF ProofInv
  <2>5. ASSUME NEW r \in reports
        PROVE  /\ r.checked <= Len(index')
               /\ ~Audit!Suffered({"miss"})' =>
                    (r.violations = {} => \A n \in 1 .. r.checked : ~Audit!Violates(index'[n]))
    <3>1. r.checked \in Nat /\ r.checked <= Len(index)
      BY <1>t DEF ProofInv
    <3>2. \A n \in 1 .. r.checked : index'[n] = index[n]
      BY <1>t, <2>2, <3>1
    <3> QED BY <1>t, <2>2, <2>3, <3>1, <3>2, MissesStay DEF ProofInv
  <2> QED BY <2>1, <2>4, <2>5 DEF ProofInv, Audit!Violates
<1>2. ASSUME NEW a \in Auditors, Audit!CountRows(a) PROVE ProofInv'
  <2>1. PICK rows \in {index, <<>>} : counted' = [counted EXCEPT ![a] = rows]
    BY <1>2 DEF Audit!CountRows
  <2>2. UNCHANGED <<index, reports>> /\ Len(rows) <= Len(index)
    BY <1>2, <1>t, <2>1 DEF Audit!CountRows, Audit!records
  <2>3. \A b \in Auditors : counted'[b] # None => Len(counted'[b]) <= Len(index)
    BY <2>1, <2>2 DEF ProofInv, Audit!TypeOK
  <2> QED BY <2>2, <2>3, MissesStay DEF ProofInv, Audit!Violates
<1>3. ASSUME NEW a \in Auditors, Audit!FindViolations(a) PROVE ProofInv'
  <2>0. PICK rows \in {index, <<>>} :
          /\ Audit!Reads(rows)
          /\ reports' = reports \cup {Audit!Compliance(counted[a], rows)}
    BY <1>3 DEF Audit!FindViolations
  <2> DEFINE r == Audit!Compliance(counted[a], rows)
  <2>1. /\ counted[a] \in Seq(Events) /\ Len(counted[a]) <= Len(index)
        /\ reports' = reports \cup {r} /\ UNCHANGED index
        /\ counted' = [counted EXCEPT ![a] = None]
    BY <1>3, <2>0, ReportTyped, <1>t DEF Audit!FindViolations, ProofInv, Audit!records
  <2>2. r.checked = Len(counted[a]) /\ r.violations = Audit!Violations(rows)
    BY DEF Audit!Compliance
  <2> HIDE DEF r
  <2>3. ASSUME ~Audit!Suffered({"miss"})', r.violations = {}
        PROVE  \A n \in 1 .. r.checked : ~Audit!Violates(index[n])
    <3>1. rows = index
      BY <2>0, <2>3, MissesStay DEF Audit!Reads
    <3>2. \A n \in 1 .. r.checked : n \in DOMAIN index
      BY <1>t, <2>1, <2>2
    <3> QED BY <2>2, <2>3, <3>1, <3>2 DEF Audit!Violations
  <2>4. \A b \in Auditors : counted'[b] # None => counted'[b] = counted[b]
    BY <2>1 DEF Audit!TypeOK
  <2>5. r.checked <= Len(index)
    BY <2>1, <2>2
  <2> QED BY <2>1, <2>3, <2>4, <2>5, MissesStay DEF ProofInv, Audit!Violates
<1>4. CASE UNCHANGED <<index, counted, reports>>
  BY <1>4, MissesStay DEF ProofInv, Audit!Violates
<1>5. ASSUME NEW h \in Handlers, Audit!AppendEntry(h)
      PROVE UNCHANGED <<index, counted, reports>>
  BY <1>5 DEF Audit!AppendEntry
<1> QED BY <1>1, <1>2, <1>3, <1>4, <1>5 DEF Audit!Next, vars, Audit!records

\* A report without violations proves what it says of the decisions it counted,
\* however many were indexed between its two reads (ProofIsSound), unless a read
\* failed in the way that looks like an empty index.
THEOREM ComplianceIsProved == Spec => []ProofIsSound
<1> DEFINE Inv == listener = "audit" => ProofInv
<1>1. Init => Inv
  BY DEF Init, Audit!Init, ProofInv
<1>2. AuditTyped /\ Inv /\ [Next]_vars => Inv'
  BY ProofStep, OneListener DEF AuditTyped
<1>3. Inv => ProofIsSound
  BY DEF ProofInv, ProofIsSound, Audit!ProofIsSound
<1> QED BY <1>1, <1>2, <1>3, AuditTypeCorrect, PTL DEF Spec

--------------------------------------------------------------------------------
(* Audit: nothing is missing.  A marked or acknowledged event is recorded, or *)
(* a handler is still to record it or to take its mark back.                *)

\* The event is in the trail, and its invoice in the index if it has to be.
InTrail(e)  == Audit!Contains(trail[AuditStory[e].invoice], e)
Recorded(e) ==
  /\ InTrail(e)
  /\ Audit!IsAutoApproval(e) =>
       \E n \in DOMAIN index : AuditStory[index[n]].invoice = AuditStory[e].invoice

\* No mark outlives its handler, and none is taken back from under another one.
NoMarkIsLost ==
  /\ ~Audit!Suffered({"mark", "forget", "crash"})
  /\ ~(Audit!Suffered({"twice"}) /\ Audit!Suffered({"call"}))

\* A handler that may take its mark back is the only one of its event.
Solitary ==
  /\ \A h \in Handlers : pc[h] = "forget" => Audit!Suffered({"call"})
  /\ Audit!Suffered({"twice"})
       \/ /\ \A h \in Handlers : pc[h] # "idle" => event[h] \in unacked
          /\ \A g, h \in Handlers :
               pc[g] # "idle" /\ pc[h] # "idle" /\ event[g] = event[h] => g = h

Carried(e, h) == event[h] = e /\ pc[h] \in {"append", "index", "forget"}

Complete ==
  /\ \A h \in Handlers : pc[h] \in {"append", "index", "forget", "ack"} => event[h] \in processed
  /\ \A h \in Handlers : pc[h] = "index" => InTrail(event[h])
  /\ \A e \in Events :
       e \in processed \/ e \notin unacked => Recorded(e) \/ \E h \in Handlers : Carried(e, h)

CompleteInv == NoMarkIsLost => Solitary /\ Complete

\* Marks are lost by faults that stay on record.
LEMMA MarksWereKept ==
  ASSUME Audit!TypeOK, [Audit!Next]_vars, NoMarkIsLost'
  PROVE  /\ NoMarkIsLost
         /\ \A kind \in {"call", "twice"} : Audit!Suffered({kind}) => Audit!Suffered({kind})'
BY AuditFaultsStay DEF NoMarkIsLost, Audit!Suffered, Audit!AllFaultKinds

\* What an append adds is recorded, and stays so.
LEMMA TrailHolds ==
  ASSUME Audit!TypeOK, NEW h \in Handlers, Audit!AppendEntry(h)
  PROVE  /\ InTrail(event[h])'
         /\ \A e \in Events : /\ InTrail(e) => InTrail(e)'
                              /\ Recorded(e) => Recorded(e)'
         /\ ~Audit!IsAutoApproval(event[h]) => Recorded(event[h])'
<1> DEFINE e == event[h]
           i == AuditStory[e].invoice
<1>1. /\ e \in Events /\ i \in Invoices
      /\ trail' = [trail EXCEPT ![i] = Audit!Added(trail[i], e, {e})]
      /\ UNCHANGED <<event, index>>
  BY TrailGrows DEF Audit!AppendEntry, Audit!Commits, Audit!Works, Audit!Raise
<1>2. \A d \in Events : AuditStory[d].invoice \in Invoices
  BY AuditAssumed DEF Audit!PayloadType
<1> HIDE DEF e, i
<1>3. trail[i] \in Seq(Events) /\ trail'[i] = Audit!Added(trail[i], e, {e})
  BY <1>1 DEF Audit!TypeOK
<1>4. /\ trail'[i] \in Seq(Events) /\ Len(trail[i]) <= Len(trail'[i])
      /\ \A n \in DOMAIN trail[i] : n \in DOMAIN trail'[i] /\ trail'[i][n] = trail[i][n]
  BY <1>1, <1>3, AddedGrows
<1>5. \A d : Audit!Contains(trail[i], d) => Audit!Contains(trail'[i], d)
  <2> SUFFICES ASSUME NEW d, Audit!Contains(trail[i], d) PROVE Audit!Contains(trail'[i], d)
    OBVIOUS
  <2>1. PICK n \in DOMAIN trail[i] : trail[i][n] = d
    BY <1>3, ContainsIsIn
  <2> QED BY <1>4, <2>1, ContainsIsIn
<1>6. Audit!Contains(trail'[i], e)
  BY <1>1, <1>3, <1>4, AddedHolds, ContainsIsIn
<1>7. \A j \in Invoices \ {i} : trail'[j] = trail[j]
  BY <1>1 DEF Audit!TypeOK
<1>8. InTrail(e)'
  BY <1>1, <1>6 DEF InTrail, e, i
<1>9. \A d \in Events : InTrail(d) => InTrail(d)'
  BY <1>1, <1>2, <1>5, <1>7 DEF InTrail
<1>10. \A d \in Events : Recorded(d) => Recorded(d)'
  BY <1>1, <1>9 DEF Recorded, Audit!IsAutoApproval
<1> QED
  BY <1>1, <1>8, <1>9, <1>10 DEF Recorded, Audit!IsAutoApproval, e

LEMMA IndexHolds ==
  ASSUME Audit!TypeOK, NEW h \in Handlers, Audit!AppendRow(h), InTrail(event[h])
  PROVE  /\ \A e \in Events : /\ InTrail(e) => InTrail(e)'
                              /\ Recorded(e) => Recorded(e)'
         /\ Recorded(event[h])'
<1> DEFINE e == event[h]
           same == {x \in Events : AuditStory[x].invoice = AuditStory[e].invoice}
<1>1. /\ e \in Events /\ e \in same
      /\ index' = Audit!Added(index, e, same)
      /\ UNCHANGED <<event, trail>>
  BY IndexGrows DEF Audit!AppendRow, Audit!Commits, Audit!Works, Audit!Raise
<1>2. \A x \in same : AuditStory[x].invoice = AuditStory[e].invoice
  OBVIOUS
<1>3. index \in Seq(Events)
  BY DEF Audit!TypeOK
<1> HIDE DEF e, same
<1>4. \A n \in DOMAIN index : n \in DOMAIN index' /\ index'[n] = index[n]
  BY <1>1, <1>3, AddedGrows
<1>5. \E n \in DOMAIN index' : index'[n] \in same
  BY <1>1, <1>3, AddedHolds
<1>6. \A d \in Events : InTrail(d) => InTrail(d)'
  BY <1>1 DEF InTrail
<1>7. \A d \in Events : Recorded(d) => Recorded(d)'
  BY <1>1, <1>4, <1>6 DEF Recorded, Audit!IsAutoApproval
<1>8. Recorded(e)'
  BY <1>1, <1>2, <1>5, <1>6 DEF Recorded, e
<1> QED
  BY <1>1, <1>6, <1>7, <1>8 DEF e

\* An append that commits leaves its handler on its way, or about to forget.
LEMMA CommitMoves ==
  ASSUME Audit!TypeOK, NEW h \in Handlers, NEW at \in Audit!Body, NEW next,
         Audit!Commits(h, at, next)
  PROVE  /\ pc[h] = at /\ event[h] \in Events
         /\ \A g \in Handlers \ {h} : pc'[g] = pc[g]
         /\ pc'[h] = next \/ (pc'[h] = "forget" /\ Audit!Suffered({"call"})')
         /\ UNCHANGED <<unacked, processed, event>>
<1>1. pc \in [Handlers -> {"idle", "first_time", "ack", "forget"} \cup Audit!Body]
  BY DEF Audit!TypeOK
<1>2. CASE Audit!Works(h, at, next)
  BY <1>1, <1>2 DEF Audit!Works, Audit!Goto, Audit!TypeOK, Audit!Body
<1>3. CASE Audit!Raise(h, {at})
  <2>1. Audit!Suffered({"call"})'
    BY <1>3, AuditFaultCounted DEF Audit!Raise, Audit!Suffered
  <2> QED BY <1>1, <1>3, <2>1 DEF Audit!Raise, Audit!Goto, Audit!TypeOK, Audit!Body
<1> QED BY <1>2, <1>3 DEF Audit!Commits

LEMMA CompleteStep ==
  ASSUME Audit!TypeOK, Audit!TypeOK', CompleteInv, [Audit!Next]_vars
  PROVE  CompleteInv'
<1> SUFFICES ASSUME NoMarkIsLost' PROVE Solitary' /\ Complete'
  BY DEF CompleteInv
<1>1. /\ Solitary /\ Complete
      /\ \A kind \in {"call", "twice"} : Audit!Suffered({kind}) => Audit!Suffered({kind})'
      /\ ~(Audit!Suffered({"twice"})' /\ Audit!Suffered({"call"})')
      /\ \A kind \in {"mark", "forget", "crash"} : ~Audit!Fault(kind)
  <2>1. Solitary /\ Complete
        /\ \A kind \in {"call", "twice"} : Audit!Suffered({kind}) => Audit!Suffered({kind})'
    BY MarksWereKept DEF CompleteInv
  <2>2. ~(Audit!Suffered({"twice"})' /\ Audit!Suffered({"call"})')
    BY DEF NoMarkIsLost
  <2>3. \A kind \in {"mark", "forget", "crash"} : ~Audit!Fault(kind)
    BY AuditFaultCounted DEF NoMarkIsLost, Audit!Suffered
  <2> QED BY <2>1, <2>2, <2>3
<1>2. \A h \in Handlers : pc[h] # "idle" => event[h] \in Events
  BY DEF Audit!TypeOK
<1>p. /\ pc \in [Handlers -> {"idle", "first_time", "ack", "forget"} \cup Audit!Body]
      /\ event \in [Handlers -> Events \cup {None}]
  BY DEF Audit!TypeOK
<1>r. UNCHANGED Audit!records => \A e : /\ InTrail(e) => InTrail(e)'
                                        /\ Recorded(e) => Recorded(e)'
  BY DEF Audit!records, InTrail, Recorded, Audit!IsAutoApproval
<1>3. ASSUME NEW h \in Handlers, NEW e \in Events, Audit!Deliver(h, e), UNCHANGED Audit!records
      PROVE  Solitary' /\ Complete'
  <2>1. /\ pc[h] = "idle" /\ pc'[h] = "first_time" /\ event'[h] = e /\ e \in unacked
        /\ \A g \in Handlers \ {h} : pc'[g] = pc[g] /\ event'[g] = event[g]
        /\ UNCHANGED <<unacked, processed>>
    BY <1>3, <1>p DEF Audit!Deliver, Audit!Goto
  <2>2. Audit!Suffered({"twice"})' \/ \A g \in Handlers : event[g] # e
    BY <1>3, AuditFaultCounted DEF Audit!Deliver, Audit!Suffered
  <2>3. Solitary'
    BY <1>1, <2>1, <2>2 DEF Solitary
  <2>4. \A d \in Events : \A g \in Handlers : Carried(d, g) => Carried(d, g)'
    BY <2>1 DEF Carried
  <2>5. Complete'
    BY <1>1, <1>3, <1>r, <1>2, <2>1, <2>4 DEF Complete
  <2> QED BY <2>3, <2>5
<1>4. ASSUME NEW h \in Handlers, Audit!FirstTime(h, "append"), UNCHANGED Audit!records
      PROVE  Solitary' /\ Complete'
  <2>1. /\ pc[h] = "first_time" /\ event[h] \in Events
        /\ pc'[h] = IF event[h] \in processed THEN "ack" ELSE "append"
        /\ \A g \in Handlers \ {h} : pc'[g] = pc[g]
        /\ processed' = processed \cup {event[h]}
        /\ UNCHANGED <<unacked, event>>
    BY <1>4, <1>p, <1>2 DEF Audit!FirstTime, Audit!Goto
  <2>2. Solitary'
    BY <1>1, <2>1 DEF Solitary
  <2>3. \A d \in Events : \A g \in Handlers : Carried(d, g) => Carried(d, g)'
    BY <2>1 DEF Carried
  <2>4. event[h] \in processed \/ Carried(event[h], h)'
    BY <2>1 DEF Carried
  <2>5. Complete'
    BY <1>1, <1>4, <1>r, <1>2, <2>1, <2>3, <2>4 DEF Complete
  <2> QED BY <2>2, <2>5
<1>5. ASSUME NEW h \in Handlers, Audit!Ack(h), UNCHANGED Audit!records
      PROVE  Solitary' /\ Complete'
  <2>1. /\ pc[h] = "ack" /\ pc'[h] = "idle" /\ event[h] \in Events
        /\ \A g \in Handlers \ {h} : pc'[g] = pc[g] /\ event'[g] = event[g]
        /\ unacked' = unacked \ {event[h]} /\ UNCHANGED processed
    BY <1>5, <1>p, <1>2 DEF Audit!Ack, Audit!Leave, Audit!Goto
  <2>2. Solitary'
    BY <1>1, <2>1 DEF Solitary
  <2>3. \A d \in Events : \A g \in Handlers : Carried(d, g) => Carried(d, g)'
    BY <2>1 DEF Carried
  <2>4. event[h] \in processed
    BY <1>1, <2>1 DEF Complete
  <2>5. Complete'
    BY <1>1, <1>5, <1>r, <1>2, <2>1, <2>3, <2>4 DEF Complete
  <2> QED BY <2>2, <2>5
<1>6. ASSUME NEW h \in Handlers, Audit!Forget(h), UNCHANGED Audit!records
      PROVE  Solitary' /\ Complete'
  <2>1. /\ pc[h] = "forget" /\ pc'[h] = "idle" /\ event[h] \in Events
        /\ \A g \in Handlers \ {h} : pc'[g] = pc[g] /\ event'[g] = event[g]
        /\ processed' = processed \ {event[h]} /\ UNCHANGED unacked
    BY <1>6, <1>p, <1>2 DEF Audit!Forget, Audit!Leave, Audit!Goto
  <2>2. /\ \A g \in Handlers \ {h} : pc[g] # "idle" => event[g] # event[h]
        /\ event[h] \in unacked
    BY <1>1, <2>1 DEF Solitary
  <2>3. Solitary'
    BY <1>1, <2>1 DEF Solitary
  <2>4. \A d \in Events \ {event[h]} : \A g \in Handlers : Carried(d, g) => Carried(d, g)'
    BY <2>1 DEF Carried
  <2>5. Complete'
    BY <1>1, <1>6, <1>r, <1>2, <2>1, <2>2, <2>4 DEF Complete
  <2> QED BY <2>3, <2>5
<1>7. ASSUME NEW h \in Handlers, Audit!Raise(h, Audit!Body), UNCHANGED Audit!records
      PROVE  Solitary' /\ Complete'
  <2>1. /\ pc[h] \in {"append", "index"} /\ pc'[h] = "forget" /\ event[h] \in Events
        /\ \A g \in Handlers \ {h} : pc'[g] = pc[g]
        /\ UNCHANGED <<unacked, processed, event>>
    BY <1>7, <1>p, <1>2 DEF Audit!Raise, Audit!Goto, Audit!Body
  <2>2. Audit!Suffered({"call"})'
    BY <1>7, AuditFaultCounted DEF Audit!Raise, Audit!Suffered
  <2>3. Solitary'
    BY <1>1, <2>1, <2>2 DEF Solitary
  <2>4. \A d \in Events : \A g \in Handlers : Carried(d, g) => Carried(d, g)'
    BY <2>1 DEF Carried
  <2>5. Complete'
    BY <1>1, <1>7, <1>r, <1>2, <2>1, <2>4 DEF Complete
  <2> QED BY <2>3, <2>5
<1>8. ASSUME NEW h \in Handlers, Audit!RaiseInFirstTime(h) \/ Audit!ForgetFails(h) \/ Audit!Crash
      PROVE  FALSE
  BY <1>1, <1>8 DEF Audit!RaiseInFirstTime, Audit!ForgetFails, Audit!Crash
<1>9. ASSUME NEW h \in Handlers, Audit!AppendEntry(h) PROVE Solitary' /\ Complete'
  <2> DEFINE next == IF Audit!IsAutoApproval(event[h]) THEN "index" ELSE "ack"
  <2>1. Audit!Commits(h, "append", next)
    BY <1>9 DEF Audit!AppendEntry
  <2>2. next \in {"index", "ack"} /\ (next = "ack" => ~Audit!IsAutoApproval(event[h]))
    OBVIOUS
  <2> HIDE DEF next
  <2>3. /\ pc[h] = "append" /\ event[h] \in Events
        /\ \A g \in Handlers \ {h} : pc'[g] = pc[g]
        /\ pc'[h] = next \/ (pc'[h] = "forget" /\ Audit!Suffered({"call"})')
        /\ UNCHANGED <<unacked, processed, event>>
    BY <2>1, CommitMoves DEF Audit!Body
  <2>4. Solitary'
    BY <1>1, <2>2, <2>3 DEF Solitary
  <2>5. /\ InTrail(event[h])'
        /\ \A e \in Events : (InTrail(e) => InTrail(e)') /\ (Recorded(e) => Recorded(e)')
        /\ next = "ack" => Recorded(event[h])'
    BY <1>9, <2>2, TrailHolds
  <2>6. \A d \in Events : \A g \in Handlers :
          Carried(d, g) => Carried(d, g)' \/ Recorded(d)'
    BY <2>2, <2>3, <2>5 DEF Carried
  <2>7. \A g \in Handlers : pc'[g] = "index" => InTrail(event[g])'
    BY <1>1, <1>2, <2>3, <2>5 DEF Complete
  <2>8. Complete'
    BY <1>1, <1>2, <2>2, <2>3, <2>5, <2>6, <2>7 DEF Complete
  <2> QED BY <2>4, <2>8
<1>10. ASSUME NEW h \in Handlers, Audit!AppendRow(h) PROVE Solitary' /\ Complete'
  <2>1. Audit!Commits(h, "index", "ack")
    BY <1>10 DEF Audit!AppendRow
  <2>2. /\ pc[h] = "index" /\ event[h] \in Events
        /\ \A g \in Handlers \ {h} : pc'[g] = pc[g]
        /\ pc'[h] = "ack" \/ (pc'[h] = "forget" /\ Audit!Suffered({"call"})')
        /\ UNCHANGED <<unacked, processed, event>>
    BY <2>1, CommitMoves DEF Audit!Body
  <2>3. Solitary'
    BY <1>1, <2>2 DEF Solitary
  <2>4. /\ \A e \in Events : (InTrail(e) => InTrail(e)') /\ (Recorded(e) => Recorded(e)')
        /\ Recorded(event[h])'
    BY <1>1, <1>10, <2>2, IndexHolds DEF Complete
  <2>5. \A d \in Events : \A g \in Handlers :
          Carried(d, g) => Carried(d, g)' \/ Recorded(d)'
    BY <2>2, <2>4 DEF Carried
  <2>6. Complete'
    BY <1>1, <1>2, <2>2, <2>4, <2>5 DEF Complete
  <2> QED BY <2>3, <2>6
<1>11. CASE UNCHANGED <<unacked, processed, pc, event, trail, index>>
  BY <1>1, <1>2, <1>11
  DEF Solitary, Complete, Carried, Recorded, InTrail, Audit!Suffered, Audit!IsAutoApproval
<1>12. ASSUME NEW a \in Auditors, Audit!CountRows(a) \/ Audit!FindViolations(a)
       PROVE  UNCHANGED <<unacked, processed, pc, event, trail, index>>
  BY <1>12 DEF Audit!CountRows, Audit!FindViolations, Audit!records
<1>13. CASE UNCHANGED vars
  BY <1>11, <1>13 DEF vars
<1>14. CASE Audit!Next
  BY <1>14, <1>3, <1>4, <1>5, <1>6, <1>7, <1>8, <1>9, <1>10, <1>11, <1>12
  DEF Audit!Next, Audit!ShellStep, Audit!ShellFault, Audit!Crash
<1> QED BY <1>13, <1>14

\* Once every event is acknowledged, each is in its trail and each automatic approval
\* in the index, unless a mark outlived its handler or was taken back from under
\* another (subscriptions.py:13-25, NothingIsMissing).
THEOREM NothingIsLost == Spec => []NothingIsMissing
<1> DEFINE Inv == listener = "audit" => CompleteInv
<1>1. Init => Inv
  BY DEF Init, Audit!Init, Audit!ShellFresh, CompleteInv, Solitary, Complete, Carried
<1>2. AuditTyped /\ AuditTyped' /\ Inv /\ [Next]_vars => Inv'
  BY CompleteStep, OneListener DEF AuditTyped
<1>3. Inv => NothingIsMissing
  <2> SUFFICES ASSUME Inv, listener = "audit", Audit!AtRest, NoMarkIsLost,
                      NEW e \in Events
               PROVE  Recorded(e)
    BY DEF NothingIsMissing, Audit!NothingIsMissing, NoMarkIsLost, Recorded, InTrail
  <2>1. \A h \in Handlers : ~Carried(e, h)
    BY DEF Audit!AtRest, Carried
  <2>2. e \notin unacked
    BY DEF Audit!AtRest
  <2> QED BY <2>1, <2>2 DEF CompleteInv, Complete
<1> QED BY <1>1, <1>2, <1>3, AuditTypeCorrect, PTL DEF Spec

--------------------------------------------------------------------------------
(* Notification: type correctness.                                          *)

LEMMA NotificationTypeInit == Notification!Init => Notification!TypeOK
BY DEF Notification!Init, Notification!ShellFresh, Notification!TypeOK

LEMMA NotificationTypeStep ==
  ASSUME Notification!TypeOK, [Notification!Next]_vars
  PROVE  Notification!TypeOK'
<1> USE NotificationAssumed
<1>f. \A kind : Notification!Fault(kind) => faults' \in [Notification!AllFaultKinds -> Nat]
  BY DEF Notification!Fault, Notification!AllFaultKinds, Notification!TypeOK
<1>1. ASSUME NEW h \in Handlers, NEW e \in unacked, Notification!Deliver(h, e),
             UNCHANGED <<notifications, told>>
      PROVE  Notification!TypeOK'
  BY <1>1, <1>f DEF Notification!Deliver, Notification!Goto, Notification!TypeOK
<1>2. ASSUME NEW e \in unacked, Notification!Filter(e), UNCHANGED <<notifications, told>>
      PROVE Notification!TypeOK'
  BY <1>2 DEF Notification!Filter, Notification!TypeOK
<1>3. ASSUME NEW h \in Handlers, Notification!FirstTime(h, "notify"),
             UNCHANGED <<notifications, told>>
      PROVE  Notification!TypeOK'
  BY <1>3 DEF Notification!FirstTime, Notification!Goto, Notification!TypeOK
<1>4. ASSUME NEW h \in Handlers, Notification!Ack(h), UNCHANGED <<notifications, told>>
      PROVE Notification!TypeOK'
  BY <1>4
     DEF Notification!Ack, Notification!Leave, Notification!Goto, Notification!TypeOK
<1>5. ASSUME NEW h \in Handlers, Notification!RaiseInFirstTime(h),
             UNCHANGED <<notifications, told>>
      PROVE  Notification!TypeOK'
  BY <1>5, <1>f
     DEF Notification!RaiseInFirstTime, Notification!Leave, Notification!Goto,
         Notification!TypeOK
<1>6. ASSUME NEW h \in Handlers, Notification!Notify(h) PROVE Notification!TypeOK'
  <2>1. event[h] \in Events /\ pc[h] = "notify"
    BY <1>6 DEF Notification!Notify, Notification!Works, Notification!TypeOK
  <2>2. [status |-> "processing", attempts |-> 1] \in Notification!Records
    BY DEF Notification!Records, Notification!Statuses, Notification!MaxAttempts
  <2>3. /\ notifications' \in [Events -> Notification!Records \cup {None}]
        /\ notifications'[event[h]] \in Notification!Records
        /\ \A e \in Events \ {event[h]} : notifications'[e] = notifications[e]
    BY <1>6, <2>1, <2>2 DEF Notification!Notify, Notification!TypeOK
  <2>4. told' \in [Events -> Nat]
    BY <1>6, <2>1 DEF Notification!Notify, Notification!TypeOK
  <2> QED BY <1>6, <2>1, <2>3, <2>4
        DEF Notification!Notify, Notification!Works, Notification!Goto,
            Notification!TypeOK
<1>7. ASSUME NEW h \in Handlers, Notification!Send(h) PROVE Notification!TypeOK'
  <2> DEFINE e == event[h]
  <2>1. e \in Events /\ notifications[e] \in Notification!Records
    BY <1>7 DEF Notification!Send, Notification!Works, Notification!TypeOK
  <2>2. PICK result \in Notification!Results :
          notifications' = [notifications EXCEPT ![e].status =
                              Notification!Settled(result, notifications[e].attempts)]
    BY <1>7 DEF Notification!Send
  <2>3. Notification!Settled(result, notifications[e].attempts) \in Notification!Statuses
    BY DEF Notification!Settled, Notification!Statuses
  <2>4. [notifications[e] EXCEPT !.status = Notification!Settled(result, notifications[e].attempts)]
          \in Notification!Records
    BY <2>1, <2>3 DEF Notification!Records
  <2> HIDE DEF e
  <2>5. /\ notifications' \in [Events -> Notification!Records \cup {None}]
        /\ notifications'[e] \in Notification!Records
        /\ \A d \in Events \ {e} : notifications'[d] = notifications[d]
    BY <2>1, <2>2, <2>4 DEF Notification!TypeOK
  <2> QED BY <1>7, <2>1, <2>5
        DEF Notification!Send, Notification!Works, Notification!Goto,
            Notification!TypeOK
<1>8. CASE Notification!Die
  BY <1>8, <1>f DEF Notification!Die, Notification!Crash, Notification!TypeOK
<1>9. CASE UNCHANGED vars
  BY <1>9 DEF vars, Notification!shell, Notification!TypeOK
<1> QED BY <1>1, <1>2, <1>3, <1>4, <1>5, <1>6, <1>7, <1>8, <1>9
      DEF Notification!Next, Notification!ShellStep

NotificationTyped == listener = "notification" => Notification!TypeOK

\* The notifications, the shell and what was told keep their types.
THEOREM NotificationTypeCorrect == Spec => []NotificationTyped
<1>1. Init => NotificationTyped
  BY NotificationTypeInit DEF Init, NotificationTyped
<1>2. NotificationTyped /\ [Next]_vars => NotificationTyped'
  BY NotificationTypeStep, OneListener DEF NotificationTyped
<1> QED BY <1>1, <1>2, PTL DEF Spec

--------------------------------------------------------------------------------
(* No event is told twice.  A message is sent behind the dedupe mark, which  *)
(* nothing here takes back: of the handlers of one event at most one is past *)
(* the mark before the message is out, and none is after.                    *)

OnceInv ==
  /\ \A e \in Events : told[e] <= 1 /\ (told[e] > 0 => e \in processed)
  /\ \A h \in Handlers : pc[h] = "notify" => event[h] \in processed /\ told[event[h]] = 0
  /\ \A g, h \in Handlers : pc[g] = "notify" /\ pc[h] = "notify" /\ event[g] = event[h] => g = h

LEMMA OnceStep ==
  ASSUME Notification!TypeOK, OnceInv, [Notification!Next]_vars
  PROVE  OnceInv'
<1>1. ASSUME NEW h \in Handlers, NEW e \in unacked, Notification!Deliver(h, e), UNCHANGED told
      PROVE  OnceInv'
  BY <1>1 DEF Notification!Deliver, Notification!Goto, Notification!TypeOK, OnceInv
<1>2. ASSUME NEW e \in unacked, Notification!Filter(e), UNCHANGED told PROVE OnceInv'
  BY <1>2 DEF Notification!Filter, OnceInv
<1>3. ASSUME NEW h \in Handlers, Notification!FirstTime(h, "notify"), UNCHANGED told
      PROVE OnceInv'
  <2>1. event[h] \in Events /\ told[event[h]] \in Nat
    BY <1>3 DEF Notification!FirstTime, Notification!TypeOK
  <2>2. /\ pc'[h] = "notify" => event[h] \notin processed
        /\ \A g \in Handlers \ {h} : pc'[g] = pc[g]
        /\ processed' = processed \cup {event[h]} /\ UNCHANGED event
    BY <1>3 DEF Notification!FirstTime, Notification!Goto, Notification!TypeOK
  <2>3. pc'[h] = "notify" => told[event[h]] = 0
    BY <2>1, <2>2 DEF OnceInv
  <2> QED BY <1>3, <2>2, <2>3 DEF OnceInv
<1>4. ASSUME NEW h \in Handlers, UNCHANGED told,
             Notification!Ack(h) \/ Notification!RaiseInFirstTime(h)
      PROVE OnceInv'
  <2>1. /\ pc'[h] = "idle" /\ processed \subseteq processed'
        /\ \A g \in Handlers \ {h} : pc'[g] = pc[g] /\ event'[g] = event[g]
    BY <1>4
       DEF Notification!Ack, Notification!RaiseInFirstTime, Notification!Leave,
           Notification!Goto, Notification!TypeOK
  <2> QED BY <1>4, <2>1 DEF OnceInv
<1>5. ASSUME NEW h \in Handlers, Notification!Notify(h) PROVE OnceInv'
  <2>1. /\ event[h] \in Events /\ pc[h] = "notify" /\ pc'[h] = "send"
        /\ \A g \in Handlers \ {h} : pc'[g] = pc[g]
        /\ UNCHANGED <<processed, event>>
    BY <1>5
       DEF Notification!Notify, Notification!Works, Notification!Goto,
           Notification!TypeOK
  <2>2. told[event[h]] = 0 /\ event[h] \in processed
    BY <2>1 DEF OnceInv
  <2>3. /\ told'[event[h]] = 1
        /\ \A e \in Events \ {event[h]} : told'[e] = told[e]
    BY <1>5, <2>1, <2>2 DEF Notification!Notify, Notification!TypeOK
  <2>4. \A g \in Handlers : pc'[g] = "notify" =>
          pc[g] = "notify" /\ event[g] # event[h] /\ event[g] \in Events
    BY <2>1 DEF OnceInv, Notification!TypeOK
  <2> QED BY <2>1, <2>2, <2>3, <2>4 DEF OnceInv
<1>6. ASSUME NEW h \in Handlers, Notification!Send(h) PROVE OnceInv'
  BY <1>6
     DEF Notification!Send, Notification!Works, Notification!Goto, Notification!TypeOK,
         OnceInv
<1>7. CASE Notification!Die
  BY <1>7 DEF Notification!Die, Notification!Crash, OnceInv
<1>8. CASE UNCHANGED vars
  BY <1>8 DEF vars, Notification!shell, OnceInv
<1> QED BY <1>1, <1>2, <1>3, <1>4, <1>5, <1>6, <1>7, <1>8
      DEF Notification!Next, Notification!ShellStep

\* No event becomes two messages, whatever is delivered again after whichever fault
\* (ToldOnce).
THEOREM NobodyIsToldTwice == Spec => []ToldOnce
<1> DEFINE Inv == listener = "notification" => OnceInv
<1>1. Init => Inv
  BY DEF Init, Notification!Init, Notification!ShellFresh, OnceInv
<1>2. NotificationTyped /\ Inv /\ [Next]_vars => Inv'
  BY OnceStep, OneListener DEF NotificationTyped
<1>3. Inv => ToldOnce
  BY DEF OnceInv, ToldOnce, Notification!ToldOnce
<1> QED BY <1>1, <1>2, <1>3, NotificationTypeCorrect, PTL DEF Spec

--------------------------------------------------------------------------------
(* Notification: the end is told.  A marked or acknowledged event that becomes *)
(* a message was told, or a handler is about to tell it.                     *)

Heard ==
  /\ \A h \in Handlers : pc[h] # "idle" => Notification!Hears(event[h])
  /\ \A e \in Events : told[e] > 0 => Notification!Hears(e)

Telling(e, h) == event[h] = e /\ pc[h] = "notify"

Delivered ==
  /\ \A h \in Handlers : pc[h] \in {"notify", "send", "ack"} => event[h] \in processed
  /\ \A e \in Events :
       Notification!Hears(e) /\ (e \in processed \/ e \notin unacked)
         => told[e] > 0 \/ \E h \in Handlers : Telling(e, h)

DeliveredInv == ~Notification!Suffered({"mark", "crash"}) => Delivered

\* A fault is counted under its kind, and a count never falls.
LEMMA NotificationFaultCounted ==
  ASSUME Notification!TypeOK, NEW kind, Notification!Fault(kind)
  PROVE  /\ kind \in Notification!AllFaultKinds
         /\ faults'[kind] > 0
         /\ \A k \in Notification!AllFaultKinds : faults[k] > 0 => faults'[k] > 0
BY DEF Notification!TypeOK, Notification!Fault, Notification!AllFaultKinds

LEMMA NotificationFaultsStay ==
  ASSUME Notification!TypeOK, [Notification!Next]_vars
  PROVE  \A k \in Notification!AllFaultKinds : faults[k] > 0 => faults'[k] > 0
<1>1. CASE UNCHANGED faults
  BY <1>1
<1>2. CASE \E kind \in Notification!AllFaultKinds : Notification!Fault(kind)
  BY <1>2, NotificationFaultCounted
<1> QED
  BY <1>1, <1>2
  DEF Notification!Next, vars, Notification!Deliver, Notification!Filter,
      Notification!FirstTime, Notification!Ack, Notification!RaiseInFirstTime,
      Notification!Crash, Notification!Die, Notification!ShellStep, Notification!Notify,
      Notification!Send, Notification!Works, Notification!AllFaultKinds

LEMMA DeliveredStep ==
  ASSUME Notification!TypeOK, Heard, DeliveredInv, [Notification!Next]_vars
  PROVE  Heard' /\ DeliveredInv'
<1>f. ~Notification!Suffered({"mark", "crash"})' =>
        /\ Delivered
        /\ \A kind \in {"mark", "crash"} : ~Notification!Fault(kind)
  BY NotificationFaultsStay, NotificationFaultCounted
  DEF DeliveredInv, Notification!Suffered, Notification!AllFaultKinds
<1>p. /\ pc \in [Handlers -> {"idle", "first_time", "notify", "send", "ack"}]
      /\ event \in [Handlers -> Events \cup {None}]
      /\ told \in [Events -> Nat]
      /\ \A h \in Handlers : pc[h] # "idle" => event[h] \in Events
  BY DEF Notification!TypeOK
<1>1. ASSUME NEW h \in Handlers, NEW e \in unacked, Notification!Hears(e),
             Notification!Deliver(h, e), UNCHANGED told
      PROVE  Heard' /\ (Delivered => Delivered')
  <2>1. /\ pc[h] = "idle" /\ pc'[h] = "first_time" /\ event'[h] = e
        /\ \A g \in Handlers \ {h} : pc'[g] = pc[g] /\ event'[g] = event[g]
        /\ UNCHANGED <<unacked, processed, told>>
    BY <1>1, <1>p DEF Notification!Deliver, Notification!Goto
  <2>2. \A d, g : g \in Handlers /\ Telling(d, g) => Telling(d, g)'
    BY <2>1 DEF Telling
  <2> QED BY <1>1, <2>1, <2>2 DEF Heard, Delivered, Notification!Hears
<1>2. ASSUME NEW e \in unacked, ~Notification!Hears(e), Notification!Filter(e), UNCHANGED told
      PROVE  Heard' /\ (Delivered => Delivered')
  BY <1>2 DEF Notification!Filter, Heard, Delivered, Telling, Notification!Hears
<1>3. ASSUME NEW h \in Handlers, Notification!FirstTime(h, "notify"), UNCHANGED told
      PROVE  Heard' /\ (Delivered => Delivered')
  <2>1. /\ pc[h] = "first_time"
        /\ pc'[h] = IF event[h] \in processed THEN "ack" ELSE "notify"
        /\ \A g \in Handlers \ {h} : pc'[g] = pc[g]
        /\ processed' = processed \cup {event[h]}
        /\ UNCHANGED <<unacked, event, told>>
    BY <1>3, <1>p DEF Notification!FirstTime, Notification!Goto
  <2>2. \A d, g : g \in Handlers /\ Telling(d, g) => Telling(d, g)'
    BY <2>1 DEF Telling
  <2>3. event[h] \in processed \/ Telling(event[h], h)'
    BY <2>1 DEF Telling
  <2>4. Heard'
    BY <2>1 DEF Heard, Notification!Hears
  <2>5. Delivered => Delivered'
    BY <2>1, <2>2, <2>3 DEF Delivered, Notification!Hears
  <2> QED BY <2>4, <2>5
<1>4. ASSUME NEW h \in Handlers, Notification!Ack(h), UNCHANGED told
      PROVE  Heard' /\ (Delivered => Delivered')
  <2>1. /\ pc[h] = "ack" /\ pc'[h] = "idle"
        /\ \A g \in Handlers \ {h} : pc'[g] = pc[g] /\ event'[g] = event[g]
        /\ unacked' = unacked \ {event[h]}
        /\ UNCHANGED <<processed, told>>
    BY <1>4, <1>p DEF Notification!Ack, Notification!Leave, Notification!Goto
  <2>2. \A d, g : g \in Handlers /\ Telling(d, g) => Telling(d, g)'
    BY <2>1 DEF Telling
  <2> QED BY <2>1, <2>2 DEF Heard, Delivered, Notification!Hears
<1>5. ASSUME NEW h \in Handlers, Notification!RaiseInFirstTime(h), UNCHANGED told
      PROVE  Heard' /\ Notification!Fault("mark")
  BY <1>5, <1>p
  DEF Notification!RaiseInFirstTime, Notification!Leave, Notification!Goto, Heard,
      Notification!Hears
<1>6. ASSUME NEW h \in Handlers, Notification!Notify(h)
      PROVE  Heard' /\ (Delivered => Delivered')
  <2>1. /\ pc[h] = "notify" /\ pc'[h] = "send" /\ event[h] \in Events
        /\ \A g \in Handlers \ {h} : pc'[g] = pc[g]
        /\ UNCHANGED <<unacked, processed, event>>
        /\ told' = [told EXCEPT ![event[h]] = @ + 1]
    BY <1>6, <1>p DEF Notification!Notify, Notification!Works, Notification!Goto
  <2>2. told'[event[h]] > 0 /\ \A d \in Events \ {event[h]} : told'[d] = told[d]
    BY <2>1, <1>p
  <2>3. \A d, g : g \in Handlers /\ d # event[h] /\ Telling(d, g) => Telling(d, g)'
    BY <2>1 DEF Telling
  <2>4. Heard'
    BY <2>1, <2>2 DEF Heard, Notification!Hears
  <2>5. Delivered => Delivered'
    BY <2>1, <2>2, <2>3 DEF Delivered, Notification!Hears
  <2> QED BY <2>4, <2>5
<1>7. ASSUME NEW h \in Handlers, Notification!Send(h)
      PROVE  Heard' /\ (Delivered => Delivered')
  <2>1. /\ pc[h] = "send" /\ pc'[h] = "ack"
        /\ \A g \in Handlers \ {h} : pc'[g] = pc[g]
        /\ UNCHANGED <<unacked, processed, event, told>>
    BY <1>7, <1>p DEF Notification!Send, Notification!Works, Notification!Goto
  <2>2. \A d, g : g \in Handlers /\ Telling(d, g) => Telling(d, g)'
    BY <2>1 DEF Telling
  <2> QED BY <2>1, <2>2 DEF Heard, Delivered, Notification!Hears
<1>8. CASE Notification!Die
  <2>1. Notification!Fault("crash") /\ UNCHANGED told /\ \A h \in Handlers : pc'[h] = "idle"
    BY <1>8 DEF Notification!Die, Notification!Crash
  <2>2. Heard'
    BY <2>1 DEF Heard, Notification!Hears
  <2> QED BY <1>f, <2>1, <2>2 DEF DeliveredInv
<1>9. CASE UNCHANGED vars
  <2>1. UNCHANGED <<unacked, processed, pc, event, faults, told>>
    BY <1>9 DEF vars
  <2> QED BY <2>1
          DEF Heard, DeliveredInv, Delivered, Telling, Notification!Suffered, Notification!Hears
<1>10. CASE Notification!Next
  BY <1>10, <1>f, <1>1, <1>2, <1>3, <1>4, <1>5, <1>6, <1>7, <1>8
  DEF Notification!Next, Notification!ShellStep, DeliveredInv
<1> QED BY <1>9, <1>10

\* The sums and the numbers Notification counts with are the ones of Sums.
LEMMA SameCounting ==
  /\ \A p, S : Notification!SumFunctionOnSet(p, S) = SumFunctionOnSet(p, S)
  /\ \A S : Notification!Cardinality(S) = Cardinality(S)
BY Zenon
   DEF Notification!SumFunctionOnSet, Notification!FoldFunctionOnSet,
       Notification!MapThenFoldSet, Notification!Cardinality,
       SumFunctionOnSet, FoldFunctionOnSet, MapThenFoldSet, Cardinality

\* At rest every event that becomes a message was told once, and no other.
LEMMA ToldOnceEach ==
  ASSUME Notification!TypeOK, OnceInv, Heard, Delivered, Notification!AtRest, NEW e \in Events
  PROVE  told[e] = IF Notification!Hears(e) THEN 1 ELSE 0
<1>1. \A h \in Handlers : ~Telling(e, h)
  BY DEF Notification!AtRest, Telling
<1>2. e \notin unacked
  BY DEF Notification!AtRest
<1>3. told[e] \in Nat /\ told[e] <= 1
  BY DEF Notification!TypeOK, OnceInv
<1> QED BY <1>1, <1>2, <1>3 DEF Heard, Delivered

\* Once every event is acknowledged, the submitter was told of each rejection by the
\* router and each report of a payment, and where no human was asked of nothing else,
\* unless a mark outlived its handler (subscriptions.py:8-12, EndIsTold).
THEOREM EveryEndIsTold == Spec => []EndIsTold
<1> DEFINE Inv == listener = "notification" => OnceInv /\ Heard /\ DeliveredInv
<1>1. Init => Inv
  BY DEF Init, Notification!Init, Notification!ShellFresh, OnceInv, Heard, DeliveredInv,
         Delivered, Telling, Notification!Hears, Notification!Subscribed
<1>2. NotificationTyped /\ Inv /\ [Next]_vars => Inv'
  BY OnceStep, DeliveredStep, OneListener DEF NotificationTyped
<1>3. NotificationTyped /\ Inv => EndIsTold
  <2> SUFFICES ASSUME NotificationTyped, Inv, listener = "notification",
                      Notification!AtRest, ~Notification!Suffered({"mark", "crash"}),
                      NEW i
               PROVE  /\ \A e \in Notification!Ends(i) : told[e] = 1
                      /\ (\A e \in Events : NotificationStory[e].invoice = i =>
                                              NotificationStory[e].outcome # "human_review") =>
                           Notification!ToldAbout(i) = Notification!Cardinality(Notification!Ends(i))
    BY DEF EndIsTold, Notification!EndIsTold
  <2>1. \A e \in Events : told[e] = IF Notification!Hears(e) THEN 1 ELSE 0
    BY ToldOnceEach DEF NotificationTyped, DeliveredInv
  <2>2. Notification!Ends(i) \subseteq Events
        /\ \A e \in Notification!Ends(i) : Notification!Hears(e)
    BY DEF Notification!Ends, Notification!Hears
  <2>3. ASSUME \A e \in Events : NotificationStory[e].invoice = i =>
                                   NotificationStory[e].outcome # "human_review"
        PROVE  Notification!ToldAbout(i) = Notification!Cardinality(Notification!Ends(i))
    <3> DEFINE Ends  == Notification!Ends(i)
               About == {e \in Events : NotificationStory[e].invoice = i}
    <3>1. Ends \subseteq About /\ \A e \in About \ Ends : ~Notification!Hears(e)
      BY <2>3 DEF Notification!Ends, Notification!Hears
    <3>2. IsFiniteSet(About) /\ IsFiniteSet(Ends)
      <4>1. About \subseteq Events
        OBVIOUS
      <4> HIDE DEF About, Ends
      <4> QED BY <3>1, <4>1, NotificationAssumed, FS_Subset
    <3>3. /\ \A e \in Ends : told[e] = 1
          /\ \A e \in About \ Ends : told[e] = 0
      BY <2>1, <2>2, <3>1
    <3> HIDE DEF About, Ends
    <3>4. SumFunctionOnSet(told, About) = SumFunctionOnSet(told, Ends)
      BY <3>1, <3>2, <3>3, SumPadded
    <3>5. SumFunctionOnSet(told, Ends) = Cardinality(Ends)
      BY <3>2, <3>3, SumCounts
    <3>6. Notification!ToldAbout(i) = SumFunctionOnSet(told, About)
      BY SameCounting DEF Notification!ToldAbout, About
    <3> QED BY <3>4, <3>5, <3>6, SameCounting DEF Ends
  <2> QED BY <2>1, <2>2, <2>3
<1> QED BY <1>1, <1>2, <1>3, NotificationTypeCorrect, PTL DEF Spec
==================================================================================

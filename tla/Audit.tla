---------------------------------- MODULE Audit ----------------------------------
(***************************************************************************)
(* The audit service: every event of every topic is appended to the trail  *)
(* of its correlation id, and a decision that approves automatically also  *)
(* to an index, from which the endpoint proves that none was above its     *)
(* ceiling.  Both appends are compare-and-swap loops, one action each      *)
(* (CasStore shows that they are atomic), and idempotent by content.       *)
(***************************************************************************)
EXTENDS Subscriber, SequencesExt

CONSTANTS
  Auditors,    \* concurrent calls of the endpoint
  Invoices,    \* one correlation id each
  Payload,     \* what each event says: see PayloadType
  MaxReports   \* bound on the number of answers of the endpoint

PayloadType ==
  [topic   : {"invoice-submitted", "decision-made", "approval-resolved",
              "payment-completed", "payment-failed"},
   invoice : Invoices,
   outcome : {"auto_approve", "human_review", "reject", "rejected", "none"},
   amount  : Nat,
   ceiling : Nat]

AuditAssumption == Payload \in [Events -> PayloadType] /\ MaxReports \in Nat

VARIABLES
  trail,    \* trail:{correlation_id}, the events in it
  index,    \* index:auto-approvals, the decisions in it
  counted,  \* the index as each call of the endpoint counted it, None before
  reports   \* the answers of the endpoint

records == <<trail, index>>
vars    == <<shell, records, counted, reports>>

IsAutoApproval(e) == Payload[e].topic = "decision-made" /\ Payload[e].outcome = "auto_approve"

Body == {"append", "index"}

TypeOK ==
  /\ unacked \subseteq Events /\ processed \subseteq Events
  /\ pc \in [Handlers -> {"idle", "first_time", "ack", "forget"} \cup Body]
  /\ event \in [Handlers -> Events \cup {None}]
  /\ \A h \in Handlers : pc[h] # "idle" => event[h] \in Events
  /\ faults \in [AllFaultKinds -> Nat]
  /\ trail \in [Invoices -> Seq(Events)]
  /\ index \in Seq(Events)
  /\ counted \in [Auditors -> Seq(Events) \cup {None}]
  /\ reports \subseteq [checked : Nat, violations : SUBSET Nat]

Init ==
  /\ unacked = Events
  /\ ShellFresh
  /\ trail   = [i \in Invoices |-> <<>>]
  /\ index   = <<>>
  /\ counted = [a \in Auditors |-> None]
  /\ reports = {}

--------------------------------------------------------------------------------
\* Mutant: a replay is appended again.
AddedAgain(entries, e, same) == Append(entries, e)

\* An entry is appended unless the list holds one that counts as the same.
Added(entries, e, same) ==
  IF \E n \in DOMAIN entries : entries[n] \in same THEN entries ELSE Append(entries, e)

\* An append commits, and its answer arrives or is lost.
Commits(h, at, next) == Works(h, at, next) \/ Raise(h, {at})

\* AuditTrail.append: the same entry is one with the same event id.
AppendEntry(h) ==
  LET e == event[h]
      i == Payload[e].invoice
  IN /\ Commits(h, "append", IF IsAutoApproval(e) THEN "index" ELSE "ack")
     /\ trail' = [trail EXCEPT ![i] = Added(@, e, {e})]
     /\ UNCHANGED <<index, counted, reports>>

\* AuditTrail.append_auto_approval: the same row is one of the same invoice.
AppendRow(h) ==
  LET e == event[h] IN
  /\ Commits(h, "index", "ack")
  /\ index' = Added(index, e, {x \in Events : Payload[x].invoice = Payload[e].invoice})
  /\ UNCHANGED <<trail, counted, reports>>

--------------------------------------------------------------------------------
\* ceiling_compliance: the endpoint reads the index twice.

Violates(e) == Payload[e].amount > Payload[e].ceiling

Violations(rows) == {n \in DOMAIN rows : Violates(rows[n])}

\* Mutant: the violations are read before the count.
ComplianceReversed(first, second) ==
  [checked |-> Len(second), violations |-> Violations(first)]

Compliance(first, second) ==
  [checked |-> Len(first), violations |-> Violations(second)]

\* A get of the index; one that fails without a body reads as an empty index.
Reads(rows) ==
  \/ rows = index /\ UNCHANGED faults
  \/ rows = <<>> /\ Fault("miss")

CountRows(a) ==
  /\ counted[a] = None
  /\ Cardinality(reports) < MaxReports
  /\ \E rows \in {index, <<>>} : Reads(rows) /\ counted' = [counted EXCEPT ![a] = rows]
  /\ UNCHANGED <<unacked, processed, pc, event, records, reports>>

FindViolations(a) ==
  /\ counted[a] # None
  /\ \E rows \in {index, <<>>} :
       Reads(rows) /\ reports' = reports \cup {Compliance(counted[a], rows)}
  /\ counted' = [counted EXCEPT ![a] = None]
  /\ UNCHANGED <<unacked, processed, pc, event, records>>

--------------------------------------------------------------------------------
ShellStep(h) == FirstTime(h, "append") \/ Ack(h) \/ Forget(h)

ShellFault(h) == Raise(h, Body) \/ RaiseInFirstTime(h) \/ ForgetFails(h)

Next ==
  \/ /\ \/ \E h \in Handlers, e \in Events : Deliver(h, e)
        \/ \E h \in Handlers : ShellStep(h) \/ ShellFault(h)
        \/ Crash
     /\ UNCHANGED <<records, counted, reports>>
  \/ \E h \in Handlers : AppendEntry(h) \/ AppendRow(h)
  \/ \E a \in Auditors : CountRows(a) \/ FindViolations(a)

Spec == Init /\ [][Next]_vars

--------------------------------------------------------------------------------
\* Properties.

\* However often an event is delivered, and whatever fails in between, it is in
\* the trail of its invoice once, and its invoice in the index once: a replay
\* never inflates the count of the proof (subscriptions.py:19-25).
RecordedOnce ==
  /\ \A i \in Invoices : IsInjective(trail[i])
  /\ \A n, m \in DOMAIN index : Payload[index[n]].invoice = Payload[index[m]].invoice => n = m

\* Once every event is acknowledged, the trail and the index that projects it
\* hold them all, whichever of the two appends raised on the way: a decision is
\* never in the trail and missing from the proof.  (A mark that outlives its
\* handler leaves the gap that subscriptions.py:13-17 tolerates, and so does one
\* that made another delivery a duplicate before it was forgotten.)
NothingIsMissing ==
  AtRest /\ ~Suffered({"mark", "forget", "crash"}) /\ ~(Suffered({"twice"}) /\ Suffered({"call"})) =>
    \A e \in Events :
      /\ Contains(trail[Payload[e].invoice], e)
      /\ IsAutoApproval(e) =>
           \E n \in DOMAIN index : Payload[index[n]].invoice = Payload[e].invoice

\* "An empty violations list over a non-zero checked count IS the proof"
\* (api.py:22): what was counted holds no violation, although the index grows
\* between the two reads.  (A second read that misses finds no violation.)
ProofIsSound ==
  ~Suffered({"miss"}) =>
    \A r \in reports : r.violations = {} => \A n \in 1 .. r.checked : ~Violates(index[n])
================================================================================

------------------------------- MODULE Lifecycle -------------------------------
(***************************************************************************)
(* What the submitter is promised: the life of an invoice as intake shows  *)
(* it.  It is submitted, evaluated, decided by the router or by a person,  *)
(* paid or not; only a person's "needs info" opens it again, as a new      *)
(* version.  Nothing leaves an outcome, and no step is skipped.            *)
(***************************************************************************)
EXTENDS Naturals

CONSTANTS Invoices, None

VARIABLES
  status,   \* the status shown of every invoice, None before it is submitted
  version   \* which submission it is the status of, 0 before the first

shown == <<status, version>>

\* Where the story of one submission may go from each status.
Follows ==
  [submitted        |-> {"evaluating", "submit_failed"},
   evaluating       |-> {"approved", "rejected", "duplicate", "pending_approval"},
   pending_approval |-> {"approved", "rejected", "needs_info"},
   approved         |-> {"paid", "payment_failed"}]

Init ==
  /\ status  = [i \in Invoices |-> None]
  /\ version = [i \in Invoices |-> 0]

Submit(i) ==
  /\ status[i] = None
  /\ status'  = [status EXCEPT ![i] = "submitted"]
  /\ version' = [version EXCEPT ![i] = 1]

Advance(i) ==
  /\ status[i] \in DOMAIN Follows
  /\ \E s \in Follows[status[i]] : status' = [status EXCEPT ![i] = s]
  /\ UNCHANGED version

\* A resubmission is evaluated at once, under a later version.
Reopen(i) ==
  /\ status[i] = "needs_info"
  /\ status' = [status EXCEPT ![i] = "evaluating"]
  /\ version'[i] > version[i]
  /\ version' = [version EXCEPT ![i] = version'[i]]

Next == \E i \in Invoices : Submit(i) \/ Advance(i) \/ Reopen(i)

Spec == Init /\ [][Next]_shown
================================================================================

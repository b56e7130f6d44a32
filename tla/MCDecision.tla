------------------------------- MODULE MCDecision ------------------------------
(***************************************************************************)
(* Instances of Decision for TLC.                                          *)
(***************************************************************************)
EXTENDS Decision, TLC

CONSTANTS h1, h2, s1, s2, t1, i1, i2

Rates == [GBP |-> 127]

LowerCase == [v \in {"Acme", "acme"} |-> "acme"]

\* Above the ceiling, within the trusted one.
Laptop == [total |-> 30000, currency |-> "USD", category |-> "hardware", attendees |-> 0,
           receipt |-> TRUE, vendor_known |-> TRUE, adds_up |-> TRUE, items_parse |-> TRUE]

Submission(i, round, vendor, inv) ==
  [invoice |-> i, round |-> round, vendor |-> vendor, number |-> 1, data |-> inv]

\* An invoice, its resubmission under another category, and a duplicate of it.
Submissions ==
  s1 :> Submission(i1, 1, "Acme", Laptop) @@
  s2 :> Submission(i1, 2, "Acme", [Laptop EXCEPT !.category = "saas"]) @@
  t1 :> Submission(i2, 1, "Acme", Laptop)

\* The agent is unavailable, or approves.
Answers == {None, Approving}
================================================================================

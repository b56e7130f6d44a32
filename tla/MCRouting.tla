------------------------------- MODULE MCRouting -------------------------------
(***************************************************************************)
(* The router on the boundaries of every amount it compares.               *)
(***************************************************************************)
EXTENDS Routing

Rates == [EUR |-> 108, GBP |-> 127]

Around(n) == {n, n + 1}

\* Amounts on both sides of the receipt, meal, saas, base, trusted, foreign and
\* travel limits; 19685 pence are 25000 cents after rounding up.
Totals ==
  {Malformed, 0, 19685, 19686} \cup
    UNION {Around(n) : n \in {2500, 7500, 15000, 20000, 25000, 40000, 100000, 150000}}

\* One defect at a time, or none.
Defects == {"none", "receipt", "vendor_known", "adds_up", "items_parse"}

Defective(d) ==
  [total |-> 0, currency |-> "USD", category |-> "saas", attendees |-> 0,
   receipt |-> d # "receipt", vendor_known |-> d # "vendor_known",
   adds_up |-> d # "adds_up", items_parse |-> d # "items_parse"]

Samples ==
  {[Defective(d) EXCEPT !.total = n, !.currency = c, !.category = k, !.attendees = a] :
     d \in Defects, n \in Totals, c \in {"USD", "GBP", "XXX"},
     k \in Categories, a \in 0 .. 2}

\* The defaults, and a ceiling tuned above every fixed limit, with a trusted
\* ceiling below it.
Tunings ==
  {DefaultThresholds,
   [DefaultThresholds EXCEPT !.ceiling = 200000, !.trusted_ceiling = 30000]}

Advice ==
  {Approving,
   [Approving EXCEPT !.confidence = 80],
   [Approving EXCEPT !.confidence = 79],
   [Approving EXCEPT !.policy_violations = {"MEAL-03"}],
   [Approving EXCEPT !.policy_violations = {"HW-02"}],
   [Approving EXCEPT !.fraud_signals = {"GLOBAL-FRAUD"}]}

\* The provider fails on invoices that are small and sound.
Unlucky == {i \in Samples : i.total = 2500 /\ i.currency = "USD" /\ i.attendees = 2}
================================================================================

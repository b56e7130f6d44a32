--------------------------------- MODULE Agents ---------------------------------
(***************************************************************************)
(* The two agents behind the port of the decision service: the stub, whose *)
(* rules read the invoice and its free text, and the hand-rolled one, a    *)
(* conversation with a provider under one budget of attempts (the steps of *)
(* that conversation are in module Routing).                               *)
(***************************************************************************)
EXTENDS Router

CONSTANT MaxAttempts  \* requests of one evaluate(), 3 in the code

ASSUME AgentsAssumption == MaxAttempts \in Nat \ {0}

\* The rules of policy.md an agent may hold against an invoice, or find a sign of
\* fraud.  (The names are free text, and the router tells one of them apart.)
Rules == {"MEAL-01", "MEAL-02", "MEAL-03", "SAAS-01", "TRAVEL-01", "TRAVEL-02",
          "TRAVEL-03", "HW-01", "HW-02", "GLOBAL-FRAUD"}

AgentRecommendation ==
  [confidence : Nat, policy_violations : SUBSET Rules, fraud_signals : SUBSET Rules]

\* What the stub reads of an invoice and the gates do not: the words its rules
\* look for, and whether there is exactly one line item.
Text == [alcohol : BOOLEAN, premium : BOOLEAN, annual : BOOLEAN, single_line : BOOLEAN]

\* The same invoice with other words in none of its texts.
Plain(text) == [text EXCEPT !.alcohol = FALSE, !.premium = FALSE, !.annual = FALSE]

SaasMonthlyCap   == 20000
MealsPerAttendee == 7500

Violation(rule, holds) == IF holds THEN {rule} ELSE {}

\* The rules compare the total in its own currency.  (A head count that is missing
\* is not compared; one that is no positive number is a hard stop of Gate 2.)
Violations(i, text) ==
  Violation("MEAL-03", text.alcohol)
    \cup
  Violation("TRAVEL-03", text.premium)
    \cup
  Violation("SAAS-01", i.category = "saas" /\ Amount(i) > SaasMonthlyCap /\ ~text.annual)
    \cup
  Violation("MEAL-01", /\ i.category = "meals" /\ i.attendees >= 1
                       /\ Amount(i) > i.attendees * MealsPerAttendee)

LooksLikeFraud(i, text) ==
  ~i.vendor_known /\ Amount(i) % 10000 = 0 /\ Amount(i) >= 100000 /\ text.single_line

\* Mutant: an annual plan is taken for a sign of a clear category.
ConfidenceByText(i, text) == IF i.category = "other" /\ ~text.annual THEN 55 ELSE 92

Confidence(i, text) == IF i.category = "other" THEN 55 ELSE 92

\* StubAgent.evaluate: a function of the invoice.
Stub(i, text) ==
  [confidence        |-> Confidence(i, text),
   policy_violations |-> Violations(i, text),
   fraud_signals     |-> IF LooksLikeFraud(i, text) THEN {"GLOBAL-FRAUD"} ELSE {}]
================================================================================

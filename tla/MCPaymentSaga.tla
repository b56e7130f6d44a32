----------------------------- MODULE MCPaymentSaga -----------------------------
\* Small instances of PaymentSaga.
EXTENDS PaymentSaga, TLC

CONSTANTS h1, h2, e1, e2, e3, e4, i1, i2, i3, marketing, unknown

Symmetry == Permutations(Handlers)

Approved(i, d, a) ==
  [topic |-> "approval-resolved", go |-> TRUE, invoice |-> i, dept |-> d,
   amount |-> a, ceiling |-> NoCeiling]

AutoApproved(i, d, a, c) ==
  [topic |-> "decision-made", go |-> TRUE, invoice |-> i, dept |-> d,
   amount |-> a, ceiling |-> c]

\* A decision for a person to make, which is no trigger.
Escalated(i, d, a) == [AutoApproved(i, d, a, a) EXCEPT !.go = FALSE]

Budgets == marketing :> 5 @@ unknown :> NoBudget
TightBudgets == marketing :> 3 @@ unknown :> NoBudget

\* A verdict and a late automatic routing of the same invoice, with another
\* amount and above its ceiling; an invoice the provider may decline; one that
\* waits for a person.
RetriedPayload ==
  e1 :> Approved(i1, marketing, 3) @@
  e2 :> AutoApproved(i1, marketing, 4, 2) @@
  e3 :> AutoApproved(i2, marketing, 2, 2) @@
  e4 :> Escalated(i3, marketing, 1)

\* A declined invoice and two others that the department cannot both pay.
DeclinedPayload ==
  e1 :> Approved(i1, marketing, 2) @@
  e2 :> Approved(i2, marketing, 2) @@
  e3 :> Approved(i3, marketing, 2)
================================================================================

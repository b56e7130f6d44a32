------------------------------- MODULE MCApproval -------------------------------
\* Small instances of Approval.
EXTENDS Approval, TLC

CONSTANTS h1, h2, a1, a2, v1, e1, e2, e3, i1, i2

Symmetry == Permutations(Approvers)

Escalates(i)   == [invoice |-> i, review |-> TRUE, resubmission |-> FALSE]
Resubmitted(i) == [invoice |-> i, review |-> TRUE, resubmission |-> TRUE]
Decides(i)     == [invoice |-> i, review |-> FALSE, resubmission |-> FALSE]

\* An escalation published twice, another invoice, a decision that needs no human.
TwicePayload == e1 :> Escalates(i1) @@ e2 :> Escalates(i1) @@ e3 :> Decides(i2)

\* Two escalations, for the views of a queue with several ids.
TwoPayload == e1 :> Escalates(i1) @@ e2 :> Escalates(i2)

\* An escalation and what follows when it is sent back.
SentBackPayload == e1 :> Escalates(i1) @@ e2 :> Resubmitted(i1)
================================================================================

------------------------------- MODULE MCListeners -------------------------------
(***************************************************************************)
(* Listeners on one story of events: an automatic approval, published      *)
(* twice, and its payment report.  For the audit, an automatic approval    *)
(* above its ceiling, which it is there to find; for the submitter,        *)
(* another invoice the router rejects.                                     *)
(***************************************************************************)
EXTENDS Listeners, Segmenter, TLC

CONSTANTS h1, h2, a1, d1, d2, d3, r1, i1, i2

Symmetry == Permutations(Handlers)

Says(topic, i, outcome, amount, ceiling) ==
  [topic |-> topic, invoice |-> i, outcome |-> outcome, amount |-> amount, ceiling |-> ceiling]

Story(other) ==
  d1 :> Says("decision-made", i1, "auto_approve", 1, 2) @@
  d2 :> Says("decision-made", i1, "auto_approve", 1, 2) @@
  d3 :> Says("decision-made", i2, other, 3, 2) @@
  r1 :> Says("payment-completed", i1, "none", 1, 0)

Approvals  == Story("auto_approve")
Rejections == Story("reject")

\* A message to the submitter is cut into as few segments as its spaces allow.
MessagesAreCut == listener = "notification" => SegmentsAreMinimal
================================================================================

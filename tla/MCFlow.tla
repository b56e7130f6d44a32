--------------------------------- MODULE MCFlow ---------------------------------
(***************************************************************************)
(* An instance of Flow for TLC.                                            *)
(***************************************************************************)
EXTENDS Flow, TLC

CONSTANTS c1, h1, a1, i1

\* The budget covers the first version and not the second.
Amounts == <<2, 3>>

\* The states explored: one service fails; a decision is repeated on a submission
\* nobody has judged yet; and the verdict that is lost is an approval of the first
\* version, which the next one may contradict.
Bounded ==
  /\ Suffered(AllFaultKinds) => ~ReviewFailed /\ ~PaymentFailed
  /\ ReviewFailed => ~PaymentFailed
  /\ Suffered({"again"}) => posted = 0
  /\ Approval!Suffered({"lost"}) =>
       \E m \in sent : m.outcome = "approved" /\ m.version = 1 /\ m.copy = 0
================================================================================

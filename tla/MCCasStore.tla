------------------------------- MODULE MCCasStore -------------------------------
\* Small instances of CasStore.
EXTENDS CasStore, TLC

CONSTANTS c1, c2, c3, c4, c5

Does(kind, n) == [kind |-> kind, by |-> n]

\* Two reservations that the budget cannot both cover, a release, the
\* registration of the key, its deletion, and a counter's update.
Ops ==
  c1 :> Does("debit", 2) @@ c2 :> Does("debit", 2) @@ c3 :> Does("update", 1) @@
  c4 :> Does("register", 3) @@ c5 :> Does("delete", 0)

Values == {Absent, 3}
================================================================================

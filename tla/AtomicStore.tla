------------------------------ MODULE AtomicStore ------------------------------
(***************************************************************************)
(* What the services rely on: every read-modify-write of a key of the      *)
(* state store happens at one instant, or not at all.                      *)
(***************************************************************************)
EXTENDS Integers

CONSTANTS
  Clients,        \* concurrent callers
  Op,             \* what each caller asks for: see OpType
  InitialValues,  \* what the key may hold at the start
  Absent,         \* the key does not exist
  Refused         \* the operation does not apply to the value

\* update: cas_update with a function that starts from 0; debit and credit:
\* BudgetStore.reserve and release; register: try_register; delete: forget.
OpType == [kind : {"update", "debit", "credit", "register", "delete"}, by : Nat]

Results == {"pending", "done", "refused", "conflict", "raised"}

VARIABLES
  value,    \* what the key holds
  result    \* what each caller was told

absVars == <<value, result>>

\* Mutant: a debit does not ask whether the value covers it.
ApplyUncovered(op, v) ==
  IF op.kind = "delete" THEN Absent
  ELSE IF op.kind = "update" THEN (IF v = Absent THEN 0 ELSE v) + op.by
  ELSE IF op.kind = "register" THEN (IF v = Absent THEN op.by ELSE Refused)
  ELSE IF v = Absent THEN Refused
  ELSE IF op.kind = "debit" THEN v - op.by ELSE v + op.by

\* The value an operation turns v into, or Refused.
Apply(op, v) ==
  IF op.kind = "delete" THEN Absent
  ELSE IF op.kind = "update" THEN (IF v = Absent THEN 0 ELSE v) + op.by
  ELSE IF op.kind = "register" THEN (IF v = Absent THEN op.by ELSE Refused)
  ELSE IF v = Absent \/ (op.kind = "debit" /\ v < op.by) THEN Refused
  ELSE IF op.kind = "debit" THEN v - op.by ELSE v + op.by

Answer(c, r) == result' = [result EXCEPT ![c] = r]

AbsInit ==
  /\ value \in InitialValues
  /\ result = [c \in Clients |-> "pending"]

\* The operation takes effect; its caller learns it, or gets an error instead.
Perform(c) ==
  /\ result[c] = "pending"
  /\ Apply(Op[c], value) # Refused
  /\ value' = Apply(Op[c], value)
  /\ \E r \in {"done", "raised"} : Answer(c, r)

\* The operation does not apply and changes nothing.
Refuse(c) ==
  /\ result[c] = "pending"
  /\ Apply(Op[c], value) = Refused
  /\ Answer(c, "refused")
  /\ UNCHANGED value

\* The caller gets an error and nothing changed.
GiveUp(c) ==
  /\ result[c] = "pending"
  /\ \E r \in {"conflict", "raised"} : Answer(c, r)
  /\ UNCHANGED value

AbsNext == \E c \in Clients : Perform(c) \/ Refuse(c) \/ GiveUp(c)

AbsSpec == AbsInit /\ [][AbsNext]_absVars
================================================================================

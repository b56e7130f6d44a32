-------------------------------- MODULE CasStore --------------------------------
(***************************************************************************)
(* One key of the state store under concurrent callers: get returns the    *)
(* value with its etag, try_save writes only over the etag it was given,   *)
(* and cas_update, try_register and the loops of BudgetStore are built     *)
(* from the two.  Each call on the store is one action, so the callers     *)
(* interleave between their get and their try_save.                        *)
(***************************************************************************)
EXTENDS Integers, FiniteSets

CONSTANTS Clients, Op, InitialValues, Absent, Refused,
          MaxRetries,  \* rounds of a compare-and-swap loop (10 in the code)
          MayRaise     \* TRUE: a call on the store may fail

ASSUME ValueAssumption ==
  /\ Absent \notin Int
  /\ Refused \notin Int
  /\ Refused # Absent
  /\ InitialValues \subseteq Nat \cup {Absent}

ASSUME RetryAssumption == MaxRetries \in Nat \ {0} /\ MayRaise \in BOOLEAN

VARIABLES
  value,     \* the value of the key, Absent if it has none
  result,    \* the answer each caller got, "pending" while it has none
  etag,      \* the etag of the value, NoEtag if the key is absent
  lastEtag,  \* etags are fresh: the last one handed out
  pc,        \* the next call of each caller
  seen,      \* the value and the etag its last get returned
  tries,     \* rounds of its loop that failed
  misread    \* how many of them failed by an error and not by a conflict

vars == <<value, result, etag, lastEtag, pc, seen, tries, misread>>

Atomic == INSTANCE AtomicStore WITH value <- value, result <- result

ASSUME OpAssumption == Op \in [Clients -> Atomic!OpType]

NoEtag == 0

Seen == [value : Int \cup {Absent}, etag : Nat]

TypeOK ==
  /\ value \in Int \cup {Absent}
  /\ result \in [Clients -> Atomic!Results]
  /\ etag \in Nat
  /\ lastEtag \in Nat
  /\ pc \in [Clients -> {"get", "save", "end"}]
  /\ seen \in [Clients -> Seen]
  /\ tries \in [Clients -> 0 .. MaxRetries]
  /\ misread \in [Clients -> 0 .. MaxRetries]

Init ==
  /\ value \in InitialValues
  /\ result   = [c \in Clients |-> "pending"]
  /\ etag     = IF value = Absent THEN NoEtag ELSE 1
  /\ lastEtag = 1
  /\ pc       = [c \in Clients |-> "get"]
  /\ seen     = [c \in Clients |-> [value |-> Absent, etag |-> NoEtag]]
  /\ tries    = [c \in Clients |-> 0]
  /\ misread  = [c \in Clients |-> 0]

--------------------------------------------------------------------------------
Return(c, r) ==
  /\ Atomic!Answer(c, r)
  /\ pc' = [pc EXCEPT ![c] = "end"]

Write(v) ==
  /\ value'    = v
  /\ etag'     = lastEtag + 1
  /\ lastEtag' = lastEtag + 1

\* Read the key; an operation that does not apply to what was read ends here.
Get(c) ==
  /\ pc[c] = "get"
  /\ Op[c].kind # "delete"
  /\ \/ /\ Atomic!Apply(Op[c], value) = Refused
        /\ Return(c, "refused")
        /\ UNCHANGED seen
     \/ /\ Atomic!Apply(Op[c], value) # Refused
        /\ pc'   = [pc EXCEPT ![c] = "save"]
        /\ seen' = [seen EXCEPT ![c] = [value |-> value, etag |-> etag]]
        /\ UNCHANGED result
  /\ UNCHANGED <<value, etag, lastEtag, tries, misread>>

\* Mutant: a write without an etag overwrites a key that appeared meanwhile.
AcceptsBlindFirstWrite(e) == e = NoEtag \/ (value # Absent /\ e = etag)

\* try_save: without an etag only the first write, with one only over it.
Accepts(e) ==
  IF e = NoEtag THEN value = Absent ELSE value # Absent /\ e = etag

\* The write is accepted; the answer may get lost on its way back.
Save(c) ==
  /\ pc[c] = "save"
  /\ Accepts(seen[c].etag)
  /\ Write(Atomic!Apply(Op[c], seen[c].value))
  /\ \E r \in {"done", "raised"} : (r = "raised" => MayRaise) /\ Return(c, r)
  /\ UNCHANGED <<seen, tries, misread>>

\* Mutant: the loop gives up one round early.
ExhaustedEarly(n) == n + 1 >= MaxRetries

Exhausted(n) == n >= MaxRetries

\* A round of a loop failed: it goes round again or raises CasConflict.
NextRound(c) ==
  LET n == tries[c] + 1 IN
  /\ tries' = [tries EXCEPT ![c] = n]
  /\ \/ Exhausted(n) /\ Return(c, "conflict")
     \/ ~Exhausted(n) /\ pc' = [pc EXCEPT ![c] = "get"] /\ UNCHANGED result

\* The write is rejected: a registration is lost, a loop loses its round.
Reject(c) ==
  /\ pc[c] = "save"
  /\ ~Accepts(seen[c].etag)
  /\ \/ /\ Op[c].kind = "register"
        /\ Return(c, "refused")
        /\ UNCHANGED tries
     \/ /\ Op[c].kind # "register"
        /\ NextRound(c)
  /\ UNCHANGED <<value, etag, lastEtag, seen, misread>>

\* The write fails and nothing is written, but with an etag the text of the
\* error reads like a conflict: try_save answers False, and the loop takes it
\* for one.
Misread(c) ==
  /\ MayRaise
  /\ pc[c] = "save"
  /\ seen[c].etag # NoEtag
  /\ Accepts(seen[c].etag)
  /\ misread' = [misread EXCEPT ![c] = @ + 1]
  /\ NextRound(c)
  /\ UNCHANGED <<value, etag, lastEtag, seen>>

\* delete is a single unconditional call.
Delete(c) ==
  /\ pc[c] = "get"
  /\ Op[c].kind = "delete"
  /\ value' = Absent
  /\ etag'  = NoEtag
  /\ \E r \in {"done", "raised"} : (r = "raised" => MayRaise) /\ Return(c, r)
  /\ UNCHANGED <<lastEtag, seen, tries, misread>>

\* A call on the store fails before it has an effect, and the error propagates.
Raise(c) ==
  /\ MayRaise
  /\ pc[c] \in {"get", "save"}
  /\ Return(c, "raised")
  /\ UNCHANGED <<value, etag, lastEtag, seen, tries, misread>>

Call(c) == Get(c) \/ Save(c) \/ Reject(c) \/ Misread(c) \/ Delete(c)

Next == \E c \in Clients : Call(c) \/ Raise(c)

Spec == Init /\ [][Next]_vars

--------------------------------------------------------------------------------
\* However the calls interleave, every operation is one atomic step of the
\* store or changes nothing: no update is lost, none is applied twice.
IsAtomic == Atomic!AbsSpec

\* Concurrent reservations never take the budget below zero (INV-1014).
NeverNegative == value = Absent \/ value >= 0

\* A loop only gives up after losing every round, each to the write of another
\* caller, no write counted twice, or to an error it took for a conflict.
ConflictMeansContention ==
  \A c \in Clients : result[c] = "conflict" =>
    Cardinality({d \in Clients \ {c} : result[d] \in {"done", "raised"}})
      + misread[c] >= MaxRetries
================================================================================

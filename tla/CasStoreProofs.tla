----------------------------- MODULE CasStoreProofs -----------------------------
(***************************************************************************)
(* The compare-and-swap protocol implements the atomic store, for any      *)
(* number of callers, any operations and any number of retries.            *)
(*                                                                         *)
(* An accepted write is the atomic step.  The argument is that an etag      *)
(* names a value: whoever still holds the current etag has seen the        *)
(* current value, and etags are never handed out twice.                    *)
(***************************************************************************)
EXTENDS CasStore, FiniteSetTheorems, TLAPS

\* What caller c brings to its try_save.
SeenInv(c) ==
  /\ seen[c].etag <= lastEtag
  /\ pc[c] = "save" =>
       /\ Op[c].kind # "delete"
       /\ Atomic!Apply(Op[c], seen[c].value) # Refused
       /\ seen[c].etag = NoEtag <=> seen[c].value = Absent
       /\ seen[c].etag = etag => seen[c].value = value

CasInv ==
  /\ etag <= lastEtag
  /\ lastEtag >= 1
  /\ etag = NoEtag <=> value = Absent
  /\ \A c \in Clients : pc[c] = "end" <=> result[c] # "pending"
  /\ \A c \in Clients : pc[c] # "end" => tries[c] < MaxRetries
  /\ \A c \in Clients : misread[c] <= tries[c]
  /\ \A c \in Clients : SeenInv(c)

IInv == TypeOK /\ CasInv

--------------------------------------------------------------------------------
\* An operation that applies to an integer or to an absent key yields one, and
\* takes a natural number to a natural number.
LEMMA ApplyTyped ==
  ASSUME NEW c \in Clients, NEW v \in Int \cup {Absent},
         Atomic!Apply(Op[c], v) # Refused
  PROVE  /\ Atomic!Apply(Op[c], v) \in Int \cup {Absent}
         /\ v \in Nat \cup {Absent} => Atomic!Apply(Op[c], v) \in Nat \cup {Absent}
         /\ Op[c].kind # "delete" => Atomic!Apply(Op[c], v) # Absent
<1>1. Op[c] \in Atomic!OpType
  BY OpAssumption
<1> QED
  BY <1>1, ValueAssumption DEF Atomic!Apply, Atomic!OpType

\* An accepted try_save writes over the very value the caller has seen.
LEMMA AcceptedIsCurrent ==
  ASSUME IInv, NEW c \in Clients, pc[c] = "save", Accepts(seen[c].etag)
  PROVE  seen[c].value = value
BY DEF IInv, CasInv, SeenInv, Accepts

\* A caller that is about to call has no answer yet.
LEMMA BusyIsPending ==
  ASSUME IInv, NEW c \in Clients, pc[c] \in {"get", "save"}
  PROVE  result[c] = "pending"
BY DEF IInv, CasInv, TypeOK

--------------------------------------------------------------------------------
\* The states the protocol reaches are typed, and an etag names a value.
THEOREM CasInvariant == Spec => []IInv
<1>1. Init => IInv
  <2> SUFFICES ASSUME Init PROVE IInv
    OBVIOUS
  <2>1. TypeOK
    BY RetryAssumption, ValueAssumption
       DEF Init, TypeOK, Seen, NoEtag, Atomic!Results
  <2>2. CasInv
    BY RetryAssumption, ValueAssumption DEF Init, CasInv, SeenInv, NoEtag
  <2> QED
    BY <2>1, <2>2 DEF IInv
<1>2. IInv /\ [Next]_vars => IInv'
  <2> SUFFICES ASSUME IInv, [Next]_vars PROVE IInv'
    OBVIOUS
  <2> USE DEF IInv, TypeOK, CasInv, SeenInv, Return, Atomic!Answer, Atomic!Results
  <2>1. ASSUME NEW c \in Clients, Get(c) PROVE IInv'
    <3> DEFINE s == [value |-> value, etag |-> etag]
    <3>1. s \in Seen /\ s.value = value /\ s.etag = etag
      BY DEF Seen
    <3> HIDE DEF s
    <3>2. CASE Atomic!Apply(Op[c], value) = Refused /\ UNCHANGED seen
      BY <2>1, <3>2 DEF Get
    <3>3. CASE /\ Atomic!Apply(Op[c], value) # Refused
               /\ pc' = [pc EXCEPT ![c] = "save"]
               /\ seen' = [seen EXCEPT ![c] = s]
               /\ UNCHANGED result
      BY <2>1, <3>1, <3>3 DEF Get
    <3> QED
      BY <2>1, <3>2, <3>3 DEF Get, s
  <2>2. ASSUME NEW c \in Clients, Save(c) PROVE IInv'
    <3> DEFINE v == Atomic!Apply(Op[c], seen[c].value)
    <3>1. v \in Int \cup {Absent} /\ v # Absent
      BY <2>2, ApplyTyped DEF Save, Seen
    <3>2. value' = v /\ etag' = lastEtag + 1 /\ lastEtag' = lastEtag + 1
      BY <2>2 DEF Save, Write
    <3> HIDE DEF v
    <3>3. \A d \in Clients : seen[d].etag \in Nat
      BY DEF Seen
    <3>4. /\ \E r \in {"done", "raised"} : result' = [result EXCEPT ![c] = r]
          /\ pc' = [pc EXCEPT ![c] = "end"]
          /\ UNCHANGED <<seen, tries, misread>>
      BY <2>2 DEF Save
    <3> QED
      BY <3>1, <3>2, <3>3, <3>4 DEF NoEtag
  <2>r. ASSUME NEW c \in Clients, pc[c] = "save", NextRound(c),
               UNCHANGED <<value, etag, lastEtag, seen>>,
               \/ UNCHANGED misread
               \/ misread' = [misread EXCEPT ![c] = misread[c] + 1]
        PROVE  IInv'
    <3>1. CASE /\ tries' = [tries EXCEPT ![c] = tries[c] + 1]
               /\ Exhausted(tries[c] + 1)
               /\ Return(c, "conflict")
      BY <2>r, <3>1, RetryAssumption DEF Exhausted
    <3>2. CASE /\ tries' = [tries EXCEPT ![c] = tries[c] + 1]
               /\ ~Exhausted(tries[c] + 1)
               /\ pc' = [pc EXCEPT ![c] = "get"]
               /\ UNCHANGED result
      BY <2>r, <3>2, RetryAssumption DEF Exhausted
    <3> QED
      BY <2>r, <3>1, <3>2 DEF NextRound
  <2>3. ASSUME NEW c \in Clients, Reject(c) PROVE IInv'
    <3>1. UNCHANGED <<value, etag, lastEtag, seen, misread>>
      BY <2>3 DEF Reject
    <3>2. CASE Return(c, "refused") /\ UNCHANGED tries
      BY <3>1, <3>2
    <3>3. CASE NextRound(c)
      BY <2>3, <2>r, <3>1, <3>3 DEF Reject
    <3> QED
      BY <2>3, <3>2, <3>3 DEF Reject
  <2>7. ASSUME NEW c \in Clients, Misread(c) PROVE IInv'
    BY <2>7, <2>r DEF Misread
  <2>4. ASSUME NEW c \in Clients, Delete(c) PROVE IInv'
    <3>1. \A d \in Clients : seen[d].etag \in Nat
      BY DEF Seen
    <3> QED
      BY <2>4, <3>1 DEF Delete, NoEtag
  <2>5. ASSUME NEW c \in Clients, Raise(c) PROVE IInv'
    BY <2>5 DEF Raise
  <2>6. CASE UNCHANGED vars
    BY <2>6 DEF vars
  <2> QED
    BY <2>1, <2>2, <2>3, <2>4, <2>5, <2>6, <2>7 DEF Next, Call
<1> QED
  BY <1>1, <1>2, PTL DEF Spec

--------------------------------------------------------------------------------
\* Every interleaving of the callers' get and try_save is a behaviour of the
\* atomic store: cas_update, try_register, reserve, release and forget take
\* effect at one instant or not at all.
THEOREM CasIsAtomic == Spec => IsAtomic
<1>1. Init => Atomic!AbsInit
  BY DEF Init, Atomic!AbsInit
<1>2. IInv /\ [Next]_vars => [Atomic!AbsNext]_Atomic!absVars
  <2> SUFFICES ASSUME IInv, [Next]_vars
               PROVE  [Atomic!AbsNext]_Atomic!absVars
    OBVIOUS
  <2> USE DEF Atomic!AbsNext, Atomic!absVars
  <2>1. ASSUME NEW c \in Clients, Get(c) PROVE [Atomic!AbsNext]_Atomic!absVars
    <3>1. CASE Atomic!Apply(Op[c], value) = Refused
      <4>1. Atomic!Refuse(c)
        BY <2>1, <3>1, BusyIsPending DEF Get, Return, Atomic!Refuse
      <4> QED
        BY <4>1
    <3>2. CASE Atomic!Apply(Op[c], value) # Refused
      BY <2>1, <3>2 DEF Get
    <3> QED
      BY <3>1, <3>2
  <2>2. ASSUME NEW c \in Clients, Save(c) PROVE [Atomic!AbsNext]_Atomic!absVars
    <3>1. seen[c].value = value
      BY <2>2, AcceptedIsCurrent DEF Save
    <3>2. Atomic!Apply(Op[c], value) # Refused
      BY <2>2, <3>1 DEF Save, IInv, CasInv, SeenInv
    <3>3. Atomic!Perform(c)
      BY <2>2, <3>1, <3>2, BusyIsPending DEF Save, Write, Return, Atomic!Perform
    <3> QED
      BY <3>3
  <2>3. ASSUME NEW c \in Clients, Reject(c) PROVE [Atomic!AbsNext]_Atomic!absVars
    <3>1. result[c] = "pending" /\ UNCHANGED value
      BY <2>3, BusyIsPending DEF Reject
    <3>2. CASE Op[c].kind = "register" /\ Return(c, "refused")
      \* The registration lost: the key was absent and is not any more.
      <4>1. seen[c].value = Absent
        BY <2>3, <3>2 DEF Reject, IInv, CasInv, SeenInv, Atomic!Apply
      <4>2. value # Absent
        BY <2>3, <4>1 DEF Reject, Accepts, IInv, CasInv, SeenInv
      <4>3. Atomic!Apply(Op[c], value) = Refused
        BY <3>2, <4>2 DEF Atomic!Apply
      <4>4. Atomic!Refuse(c)
        BY <3>1, <3>2, <4>3 DEF Return, Atomic!Refuse
      <4> QED
        BY <4>4
    <3>3. CASE Return(c, "conflict")
      <4>1. Atomic!GiveUp(c)
        BY <3>1, <3>3 DEF Return, Atomic!GiveUp
      <4> QED
        BY <4>1
    <3>4. CASE UNCHANGED result
      BY <3>1, <3>4
    <3> QED
      BY <2>3, <3>2, <3>3, <3>4 DEF Reject, NextRound
  <2>7. ASSUME NEW c \in Clients, Misread(c) PROVE [Atomic!AbsNext]_Atomic!absVars
    \* A round is lost and nothing seen of it, or it was the last one.
    <3>1. result[c] = "pending" /\ UNCHANGED value
      BY <2>7, BusyIsPending DEF Misread
    <3>2. CASE Return(c, "conflict")
      <4>1. Atomic!GiveUp(c)
        BY <3>1, <3>2 DEF Return, Atomic!GiveUp
      <4> QED
        BY <4>1
    <3>3. CASE UNCHANGED result
      BY <3>1, <3>3
    <3> QED
      BY <2>7, <3>2, <3>3 DEF Misread, NextRound
  <2>4. ASSUME NEW c \in Clients, Delete(c) PROVE [Atomic!AbsNext]_Atomic!absVars
    <3>1. Atomic!Apply(Op[c], value) = Absent
      BY <2>4 DEF Delete, Atomic!Apply
    <3>2. Atomic!Perform(c)
      BY <2>4, <3>1, BusyIsPending, ValueAssumption DEF Delete, Return, Atomic!Perform
    <3> QED
      BY <3>2
  <2>5. ASSUME NEW c \in Clients, Raise(c) PROVE [Atomic!AbsNext]_Atomic!absVars
    <3>1. Atomic!GiveUp(c)
      BY <2>5, BusyIsPending DEF Raise, Return, Atomic!GiveUp
    <3> QED
      BY <3>1
  <2>6. CASE UNCHANGED vars
    BY <2>6 DEF vars
  <2> QED
    BY <2>1, <2>2, <2>3, <2>4, <2>5, <2>6, <2>7 DEF Next, Call
<1> QED
  BY <1>1, <1>2, CasInvariant, PTL DEF Spec, IsAtomic, Atomic!AbsSpec

--------------------------------------------------------------------------------
\* Concurrent reservations against one department never take its budget below
\* zero, whatever they race with.
THEOREM BudgetNeverNegative == Spec => []NeverNegative
<1> DEFINE Natural == value \in Nat \cup {Absent}
<1>1. Init => Natural
  BY ValueAssumption DEF Init
<1>2. IInv /\ Natural /\ [Next]_vars => Natural'
  <2> SUFFICES ASSUME IInv, Natural, [Next]_vars PROVE Natural'
    OBVIOUS
  <2>1. ASSUME NEW c \in Clients, Save(c) PROVE Natural'
    <3>1. seen[c].value = value
      BY <2>1, AcceptedIsCurrent DEF Save
    <3>2. Atomic!Apply(Op[c], value) # Refused
      BY <2>1, <3>1 DEF Save, IInv, CasInv, SeenInv
    <3> QED
      BY <2>1, <3>1, <3>2, ApplyTyped DEF Save, Write
  <2>2. ASSUME NEW c \in Clients, Get(c) \/ Reject(c) \/ Misread(c) \/ Raise(c)
        PROVE  Natural'
    BY <2>2 DEF Get, Reject, Misread, Raise
  <2>3. ASSUME NEW c \in Clients, Delete(c) PROVE Natural'
    BY <2>3 DEF Delete
  <2>4. CASE UNCHANGED vars
    BY <2>4 DEF vars
  <2> QED
    BY <2>1, <2>2, <2>3, <2>4 DEF Next, Call
<1>3. Natural => NeverNegative
  BY DEF NeverNegative
<1> QED
  BY <1>1, <1>2, <1>3, CasInvariant, PTL DEF Spec

--------------------------------------------------------------------------------
\* Contention: every round a caller lost, but for those an error ended, and the one
\* it is about to lose, has another caller's write for a reason, and no write is the
\* reason of two.

Writers(c) == {d \in Clients \ {c} : result[d] \in {"done", "raised"}}

Overtaken(c) == pc[c] = "save" /\ ~Accepts(seen[c].etag)

Contended(c) ==
  /\ IsFiniteSet(Writers(c))
  /\ tries[c] <= Cardinality(Writers(c)) + misread[c]
  /\ Overtaken(c) => tries[c] + 1 <= Cardinality(Writers(c)) + misread[c]
  /\ result[c] = "conflict" => tries[c] >= MaxRetries

\* An answer adds its caller to those who wrote, or nobody.
LEMMA WritersGrow ==
  ASSUME TypeOK, NEW c \in Clients, NEW d \in Clients, NEW r, IsFiniteSet(Writers(c)),
         result[d] = "pending", result' = [result EXCEPT ![d] = r]
  PROVE  /\ IsFiniteSet(Writers(c)')
         /\ Cardinality(Writers(c)') >= Cardinality(Writers(c))
         /\ d # c /\ r \in {"done", "raised"} =>
              Cardinality(Writers(c)') >= Cardinality(Writers(c)) + 1
<1>1. d \notin Writers(c) /\ \A e \in Clients : result'[e] = IF e = d THEN r ELSE result[e]
  BY DEF Writers, TypeOK
<1>2. \/ Writers(c)' = Writers(c) /\ ~(d # c /\ r \in {"done", "raised"})
      \/ Writers(c)' = Writers(c) \cup {d}
  <2>1. CASE d # c /\ r \in {"done", "raised"}
    <3>1. Writers(c)' = Writers(c) \cup {d}
      BY <1>1, <2>1 DEF Writers
    <3> QED BY <3>1
  <2>2. CASE ~(d # c /\ r \in {"done", "raised"})
    <3>1. Writers(c)' = Writers(c)
      BY <1>1, <2>2 DEF Writers
    <3> QED BY <2>2, <3>1
  <2> QED BY <2>1, <2>2
<1>3. Cardinality(Writers(c)) \in Nat
  BY FS_CardinalityType
<1>4. /\ IsFiniteSet(Writers(c) \cup {d})
      /\ Cardinality(Writers(c) \cup {d}) = Cardinality(Writers(c)) + 1
  BY <1>1, FS_AddElement
<1>5. CASE Writers(c)' = Writers(c) /\ ~(d # c /\ r \in {"done", "raised"})
  BY <1>3, <1>5
<1>6. CASE Writers(c)' = Writers(c) \cup {d}
  BY <1>3, <1>4, <1>6
<1> QED BY <1>2, <1>5, <1>6

\* Others come and go; what this caller holds is the same, and it is overtaken only by
\* a write.
LEMMA OthersContend ==
  ASSUME IInv, NEW c \in Clients, Contended(c), NEW d \in Clients, d # c, Call(d) \/ Raise(d)
  PROVE  Contended(c)'
<1>t. tries[c] \in Nat /\ misread[c] \in Nat /\ Cardinality(Writers(c)) \in Nat
  BY FS_CardinalityType DEF Contended, IInv, TypeOK
<1>1. /\ result'[c] = result[c] /\ pc'[c] = pc[c] /\ seen'[c] = seen[c] /\ tries'[c] = tries[c]
      /\ misread'[c] = misread[c]
  BY DEF Call, Get, Save, Reject, Misread, NextRound, Delete, Raise, Return,
         Atomic!Answer, IInv, TypeOK
<1>2. CASE UNCHANGED <<value, etag, result>>
  BY <1>1, <1>2 DEF Contended, Overtaken, Accepts, Writers
<1>3. ASSUME NEW r, result' = [result EXCEPT ![d] = r], pc[d] \in {"get", "save"},
             UNCHANGED <<value, etag>> \/ r \in {"done", "raised"}
      PROVE  Contended(c)'
  <2>1. /\ IsFiniteSet(Writers(c)')
        /\ Cardinality(Writers(c)') >= Cardinality(Writers(c))
        /\ r \in {"done", "raised"} => Cardinality(Writers(c)') >= Cardinality(Writers(c)) + 1
    BY <1>3, BusyIsPending, WritersGrow DEF Contended, IInv
  <2>2. Cardinality(Writers(c)') \in Nat
    BY <2>1, FS_CardinalityType
  <2>3. CASE r \in {"done", "raised"}
    BY <1>1, <1>t, <2>1, <2>2, <2>3 DEF Contended
  <2>4. CASE UNCHANGED <<value, etag>>
    <3>1. Overtaken(c)' => Overtaken(c)
      BY <1>1, <2>4 DEF Overtaken, Accepts
    <3> QED BY <1>1, <1>t, <2>1, <2>2, <3>1 DEF Contended
  <2> QED BY <1>3, <2>3, <2>4
<1> QED
  BY <1>2, <1>3
  DEF Call, Get, Save, Reject, Misread, NextRound, Delete, Raise, Return, Atomic!Answer

LEMMA OwnContends ==
  ASSUME IInv, NEW c \in Clients, Contended(c), Call(c) \/ Raise(c)
  PROVE  Contended(c)'
<1>t. /\ tries[c] \in Nat /\ misread[c] \in Nat
      /\ Cardinality(Writers(c)) \in Nat /\ MaxRetries \in Nat
      /\ result[c] = "pending"
  BY FS_CardinalityType, RetryAssumption, BusyIsPending
  DEF Contended, IInv, TypeOK, Call, Get, Save, Reject, Misread, Delete, Raise
<1>w. ASSUME UNCHANGED result \/ \E r : Return(c, r)
      PROVE  /\ IsFiniteSet(Writers(c)')
             /\ Cardinality(Writers(c)') \in Nat
             /\ Cardinality(Writers(c)') >= Cardinality(Writers(c))
  <2>1. CASE UNCHANGED result
    BY <1>t, <2>1 DEF Contended, Writers
  <2>2. ASSUME NEW r, result' = [result EXCEPT ![c] = r]
        PROVE  IsFiniteSet(Writers(c)') /\ Cardinality(Writers(c)') >= Cardinality(Writers(c))
    BY <1>t, <2>2, WritersGrow DEF Contended, IInv
  <2>3. IsFiniteSet(Writers(c)') => Cardinality(Writers(c)') \in Nat
    BY FS_CardinalityType
  <2> QED BY <1>w, <2>1, <2>2, <2>3 DEF Return, Atomic!Answer
\* The caller ends and lost no round.
<1>e. ASSUME NEW r, r # "conflict", Return(c, r), UNCHANGED <<tries, misread>>
      PROVE  Contended(c)'
  <2>1. pc'[c] = "end" /\ result'[c] = r
    BY <1>e DEF Return, Atomic!Answer, IInv, TypeOK
  <2> QED BY <1>t, <1>e, <1>w, <2>1 DEF Contended, Overtaken
<1>1. CASE Get(c)
  <2>1. CASE Return(c, "refused")
    BY <1>1, <1>e, <2>1 DEF Get
  <2>2. CASE /\ pc' = [pc EXCEPT ![c] = "save"]
             /\ seen' = [seen EXCEPT ![c] = [value |-> value, etag |-> etag]]
             /\ UNCHANGED <<result, value, etag, tries, misread>>
    <3>1. seen'[c].etag = etag /\ etag' = etag /\ value' = value
      BY <2>2 DEF IInv, TypeOK
    <3>2. ~Overtaken(c)'
      BY <3>1 DEF Overtaken, Accepts, IInv, CasInv
    <3> QED BY <1>t, <1>w, <2>2, <3>2 DEF Contended
  <2> QED BY <1>1, <2>1, <2>2 DEF Get
<1>2. CASE Save(c) \/ Delete(c) \/ Raise(c)
  BY <1>2, <1>e DEF Save, Delete, Raise
<1>r. ASSUME NextRound(c), tries[c] + 1 <= Cardinality(Writers(c)) + misread'[c],
             misread'[c] \in Nat
      PROVE  Contended(c)'
  <2>1. tries'[c] = tries[c] + 1
    BY <1>r DEF NextRound, IInv, TypeOK
  <2>2. CASE Exhausted(tries[c] + 1) /\ Return(c, "conflict")
    <3>1. pc'[c] = "end" /\ tries'[c] >= MaxRetries
      BY <1>t, <2>1, <2>2 DEF Exhausted, Return, IInv, TypeOK
    <3> QED BY <1>t, <1>r, <1>w, <2>1, <2>2, <3>1 DEF Contended, Overtaken
  <2>3. CASE pc' = [pc EXCEPT ![c] = "get"] /\ UNCHANGED result
    <3>1. pc'[c] = "get" /\ result'[c] = "pending"
      BY <1>t, <2>3 DEF IInv, TypeOK
    <3> QED BY <1>t, <1>r, <1>w, <2>1, <2>3, <3>1 DEF Contended, Overtaken
  <2> QED BY <1>r, <2>2, <2>3 DEF NextRound
<1>3. CASE Reject(c)
  <2>1. CASE Return(c, "refused") /\ UNCHANGED tries
    BY <1>3, <1>e, <2>1 DEF Reject
  <2>2. CASE NextRound(c)
    <3>1. tries[c] + 1 <= Cardinality(Writers(c)) + misread'[c] /\ misread'[c] = misread[c]
      BY <1>3 DEF Reject, Contended, Overtaken
    <3> QED BY <1>t, <1>r, <2>2, <3>1
  <2> QED BY <1>3, <2>1, <2>2 DEF Reject
<1>4. CASE Misread(c)
  <2>1. misread'[c] = misread[c] + 1
    BY <1>4 DEF Misread, IInv, TypeOK
  <2>2. tries[c] + 1 <= Cardinality(Writers(c)) + misread'[c]
    BY <1>t, <2>1 DEF Contended
  <2> QED BY <1>4, <1>t, <1>r, <2>1, <2>2 DEF Misread
<1> QED BY <1>1, <1>2, <1>3, <1>4 DEF Call

\* A loop gives up only when every one of its rounds was lost, each to the write of
\* another caller or to an error that try_save took for a conflict, whatever the number
\* of callers and of rounds (state.py:118-119, 136-146).
THEOREM ConflictsAreEarned == Spec => []ConflictMeansContention
<1> DEFINE ContendedInv == \A c \in Clients : Contended(c)
<1>1. Init => ContendedInv
  <2> SUFFICES ASSUME Init, NEW c \in Clients PROVE Contended(c)
    OBVIOUS
  <2>1. /\ tries[c] = 0 /\ misread[c] = 0 /\ pc[c] = "get" /\ result[c] = "pending"
        /\ Writers(c) = {}
    BY DEF Init, Writers
  <2> QED BY <2>1, FS_EmptySet DEF Contended, Overtaken
<1>2. IInv /\ ContendedInv /\ [Next]_vars => ContendedInv'
  <2> SUFFICES ASSUME IInv, ContendedInv, [Next]_vars, NEW c \in Clients PROVE Contended(c)'
    OBVIOUS
  <2>1. CASE UNCHANGED vars
    BY <2>1 DEF vars, Contended, Overtaken, Accepts, Writers
  <2>2. ASSUME NEW d \in Clients, Call(d) \/ Raise(d) PROVE Contended(c)'
    BY <2>2, OthersContend, OwnContends
  <2> QED BY <2>1, <2>2 DEF Next
<1>3. IInv /\ ContendedInv => ConflictMeansContention
  <2> SUFFICES ASSUME IInv, ContendedInv, NEW c \in Clients, result[c] = "conflict"
               PROVE  Cardinality(Writers(c)) + misread[c] >= MaxRetries
    BY DEF ConflictMeansContention, Writers
  <2>1. /\ Cardinality(Writers(c)) \in Nat /\ tries[c] \in Nat /\ MaxRetries \in Nat
        /\ misread[c] \in Nat
    BY FS_CardinalityType, RetryAssumption DEF Contended, IInv, TypeOK
  <2> QED BY <2>1 DEF Contended
<1> HIDE DEF ContendedInv
<1> QED BY <1>1, <1>2, <1>3, CasInvariant, PTL DEF Spec
================================================================================

----------------------------- MODULE DecisionProofs -----------------------------
(***************************************************************************)
(* What holds of Decision for any handlers, submissions, invoices, vendors,*)
(* thresholds and recommendations, and every fault.                        *)
(***************************************************************************)
EXTENDS Decision, Sums

--------------------------------------------------------------------------------
(* The router answers with one of its routes, and a ceiling.                *)

LEMMA CeilingType ==
  ASSUME NEW i \in Invoice, NEW t \in Thresholds, NEW trusted
  PROVE  EffectiveCeiling(t, trusted, i) \in Nat
<1>1. /\ t.ceiling \in Nat /\ t.trusted_ceiling \in Nat /\ t.saas_cap \in Nat
      /\ i.attendees \in Nat /\ t.meals_cap \in Nat
  BY DEF Invoice, Thresholds
<1>2. \A a, b \in Nat : a * b \in Nat
  OBVIOUS
<1>3. i.attendees * t.meals_cap \in Nat
  BY <1>1, <1>2
<1>4. \A a, b \in Nat : Capped(a, b) \in Nat
  BY DEF Capped
<1> QED BY <1>1, <1>3, <1>4 DEF EffectiveCeiling

LEMMA RouteType ==
  ASSUME NEW duplicate \in BOOLEAN, NEW agent, NEW t, NEW trusted, NEW i
  PROVE  /\ Route(duplicate, agent, t, trusted, i)
              \in {"auto_approve", "human_review", "reject", "duplicate"}
         /\ Route(duplicate, agent, t, trusted, i) = "duplicate" <=> duplicate
BY DEF Route

LEMMA DefaultsType == DefaultThresholds \in Thresholds
BY DEF DefaultThresholds, Thresholds

--------------------------------------------------------------------------------
(* What a handler holds, as far as it has come.                             *)

SubmissionPcs == {"register", "read_owner", "read_thresholds", "write_defaults", "is_trusted",
                  "remember", "publish"}

LocalOf(p, w) ==
  /\ p = "idle" => w = NoWork
  /\ p # "idle" => w.msg \in Messages
  /\ p \in SubmissionPcs => w.msg[1] = "invoice-submitted"
  /\ p \in {"recall", "credit"} => w.msg[1] = "payment-completed"
  /\ p \in {"first_time", "register", "read_owner"} => ~w.duplicate
  /\ p \in {"write_defaults", "is_trusted", "remember", "publish"} => w.thresholds # None
  /\ p = "credit" => w.bucket # None

LocalInv == \A h \in Handlers : LocalOf(pc[h], work[h])

TypeInv == TypeOK /\ LocalInv

LEMMA NoWorkType == NoWork \in Work /\ ~NoWork.duplicate
BY DEF NoWork, Work

\* A message about an event, or about an invoice.
LEMMA MessageType ==
  ASSUME NEW m \in Messages
  PROVE  /\ m[1] \in {"invoice-submitted", "payment-completed"}
         /\ m[1] = "invoice-submitted" => m[2] \in Events /\ m = <<"invoice-submitted", m[2]>>
         /\ m[1] = "payment-completed" => m[2] \in Invoices /\ m = <<"payment-completed", m[2]>>
BY DEF Messages

LEMMA SubmissionHeld ==
  ASSUME TypeInv, NEW h \in Handlers, pc[h] \in SubmissionPcs
  PROVE  /\ Event(h) \in Events /\ work[h].msg = <<"invoice-submitted", Event(h)>>
         /\ Payload[Event(h)] \in PayloadType
         /\ Subject(h) \in Invoices /\ Subject(h) # None
         /\ Fingerprint(Event(h)) \in Fingerprints /\ Bucket(Event(h)) \in Buckets
<1>1. work[h].msg \in Messages /\ work[h].msg[1] = "invoice-submitted"
  BY DEF TypeInv, LocalInv, LocalOf, SubmissionPcs
<1>2. Event(h) \in Events /\ work[h].msg = <<"invoice-submitted", Event(h)>>
  BY <1>1, MessageType DEF Event
<1>3. Payload[Event(h)] \in PayloadType
  BY <1>2, DecisionAssumption
<1> QED BY <1>2, <1>3, DecisionAssumption DEF Subject, PayloadType, Fingerprints, Buckets

LEMMA PaymentHeld ==
  ASSUME TypeInv, NEW h \in Handlers, pc[h] \in {"recall", "credit"}
  PROVE  Event(h) \in Invoices /\ work[h].msg = <<"payment-completed", Event(h)>>
<1>1. work[h].msg \in Messages /\ work[h].msg[1] = "payment-completed"
  BY DEF TypeInv, LocalInv, LocalOf
<1> QED BY <1>1, MessageType DEF Event

--------------------------------------------------------------------------------
(* Faults are counted, and never forgotten.                                 *)

LEMMA FewKinds == IsFiniteSet(AllFaultKinds)
<1>1. \A x, y, z : IsFiniteSet({x, y, z})
  <2> SUFFICES ASSUME NEW x, NEW y, NEW z PROVE IsFiniteSet({x, y, z})
    OBVIOUS
  <2>1. IsFiniteSet({x} \cup ({y} \cup {z}))
    BY FS_Singleton, FS_Union
  <2>2. {x, y, z} = {x} \cup ({y} \cup {z})
    OBVIOUS
  <2> QED BY <2>1, <2>2
<1>2. AllFaultKinds = {"call", "lost", "miss"} \cup
                      ({"twice", "mark", "forget"} \cup {"crash", "again", "again"})
  BY DEF AllFaultKinds
<1>3. IsFiniteSet({"twice", "mark", "forget"} \cup {"crash", "again", "again"})
  BY <1>1, FS_Union
<1> QED BY <1>1, <1>2, <1>3, FS_Union

LEMMA FaultCounted ==
  ASSUME TypeOK, NEW kind, Fault(kind)
  PROVE  /\ faults' \in [AllFaultKinds -> 0 .. MaxFaults]
         /\ kind \in AllFaultKinds /\ faults'[kind] > 0
         /\ \A k \in AllFaultKinds : faults[k] > 0 => faults'[k] > 0
<1>1. kind \in AllFaultKinds /\ faults' = [faults EXCEPT ![kind] = @ + 1]
  BY DecisionAssumption DEF Fault
<1>2. SumFunctionOnSet(faults, CountedWith(kind)) < MaxFaults
  BY SumOfValues DEF Fault
<1>3. /\ IsFiniteSet(CountedWith(kind)) /\ kind \in CountedWith(kind)
      /\ CountedWith(kind) \subseteq AllFaultKinds
  <2>1. kind \in CountedWith(kind) /\ CountedWith(kind) \subseteq AllFaultKinds
    BY <1>1 DEF CountedWith
  <2> QED BY <2>1, FewKinds, FS_Subset
<1>4. \A k \in AllFaultKinds : faults[k] \in Nat
  BY DEF TypeOK
<1>5. faults[kind] <= SumFunctionOnSet(faults, CountedWith(kind))
  BY <1>1, <1>3, <1>4, SumBoundsEach
<1>6. SumFunctionOnSet(faults, CountedWith(kind)) \in Int /\ MaxFaults \in Nat
  BY <1>3, <1>4, SumTyped, DecisionAssumption
<1>7. faults[kind] + 1 \in 0 .. MaxFaults
  BY <1>1, <1>2, <1>4, <1>5, <1>6
<1>8. faults \in [AllFaultKinds -> 0 .. MaxFaults]
  BY DEF TypeOK
<1> QED BY <1>1, <1>4, <1>7, <1>8

LEMMA FaultsStay ==
  ASSUME TypeOK, [Next]_vars
  PROVE  /\ faults' \in [AllFaultKinds -> 0 .. MaxFaults]
         /\ \A k \in AllFaultKinds : faults[k] > 0 => faults'[k] > 0
<1>1. CASE UNCHANGED faults
  BY <1>1 DEF TypeOK
<1>2. CASE \E kind \in AllFaultKinds : Fault(kind)
  BY <1>2, FaultCounted
<1> QED
  BY <1>1, <1>2
  DEF Next, vars, people, Step, Deliver, FirstTime, Register, ReadOwner, ReadThresholds, WriteDefaults,
      IsTrusted, Remember, Publish, Recall, Credit, Ack, Forget, Tune, Review, Resubmit, Pay, Raise,
      PublishIsLost, RaiseInFirstTime, ForgetFails, Crash, Finds, AllFaultKinds

--------------------------------------------------------------------------------
(* One handler moves, the others stay where they are.                       *)

Pcs == {"idle", "first_time", "ack", "forget"} \cup BodyPcs

Others(h) == \A g \in Handlers \ {h} : pc'[g] = pc[g] /\ work'[g] = work[g]

HandlersTyped == pc \in [Handlers -> Pcs] /\ work \in [Handlers -> Work] /\ LocalInv

Moves(h, next, w) ==
  /\ Others(h)
  /\ pc'[h] = next
  /\ work'[h] = w
  /\ HandlersTyped'

LEMMA HandlersAreTyped == TypeInv => HandlersTyped
BY DEF TypeInv, TypeOK, HandlersTyped, Pcs

LEMMA Moved ==
  ASSUME TypeInv, NEW h \in Handlers, NEW next \in Pcs, NEW w \in Work,
         Goto(h, next), work' = [work EXCEPT ![h] = w], LocalOf(next, w)
  PROVE  Moves(h, next, w)
<1>1. pc \in [Handlers -> Pcs] /\ work \in [Handlers -> Work] /\ LocalInv
  BY HandlersAreTyped DEF HandlersTyped
<1>2. pc' \in [Handlers -> Pcs] /\ pc'[h] = next /\ \A g \in Handlers \ {h} : pc'[g] = pc[g]
  BY <1>1 DEF Goto
<1>3. work' \in [Handlers -> Work] /\ work'[h] = w /\ \A g \in Handlers \ {h} : work'[g] = work[g]
  BY <1>1
<1>4. LocalInv'
  <2> SUFFICES ASSUME NEW g \in Handlers PROVE LocalOf(pc'[g], work'[g])
    BY DEF LocalInv, LocalOf, NoWork, Messages
  <2> QED BY <1>1, <1>2, <1>3 DEF LocalInv
<1> QED BY <1>2, <1>3, <1>4 DEF Moves, Others, HandlersTyped

\* The handler goes on with what it holds.
LEMMA MovedOn ==
  ASSUME TypeInv, NEW h \in Handlers, NEW next \in Pcs, Goto(h, next), UNCHANGED work,
         LocalOf(next, work[h])
  PROVE  Moves(h, next, work[h])
<1>1. work \in [Handlers -> Work]
  BY DEF TypeInv, TypeOK
<1>2. work[h] \in Work /\ work' = [work EXCEPT ![h] = work[h]]
  BY <1>1
<1> QED BY <1>2, Moved

LEMMA Left ==
  ASSUME TypeInv, NEW h \in Handlers, Leave(h)
  PROVE  Moves(h, "idle", NoWork)
<1>1. "idle" \in Pcs /\ LocalOf("idle", NoWork)
  BY NoWorkType DEF Pcs, LocalOf, SubmissionPcs
<1> QED BY <1>1, NoWorkType, Moved DEF Leave

\* What each action does to its handler.
LEMMA Held ==
  ASSUME TypeInv, NEW h \in Handlers
  PROVE  /\ work[h] \in Work /\ LocalOf(pc[h], work[h])
         /\ pc[h] # "idle" => work[h].msg \in Messages
BY HandlersAreTyped DEF HandlersTyped, LocalInv, LocalOf

LEMMA DeliverMoves ==
  ASSUME TypeInv, NEW h \in Handlers, NEW m \in unacked, Deliver(h, m)
  PROVE  pc[h] = "idle" /\ m \in Messages /\ Moves(h, "first_time", [NoWork EXCEPT !.msg = m])
<1>1. pc[h] = "idle" /\ m \in Messages /\ work[h] = NoWork
  BY Held DEF Deliver, TypeInv, TypeOK, LocalOf
<1>2. /\ Goto(h, "first_time")
      /\ work' = [work EXCEPT ![h] = [work[h] EXCEPT !.msg = m]]
  BY DEF Deliver
<1>3. [NoWork EXCEPT !.msg = m] \in Work /\ "first_time" \in Pcs
  BY <1>1 DEF NoWork, Work, Pcs
<1>4. LocalOf("first_time", [NoWork EXCEPT !.msg = m])
  BY <1>1 DEF LocalOf, SubmissionPcs, NoWork
<1>5. work' = [work EXCEPT ![h] = [NoWork EXCEPT !.msg = m]]
  BY <1>1, <1>2
<1> QED BY <1>1, <1>2, <1>3, <1>4, <1>5, Moved

LEMMA FirstTimeMoves ==
  ASSUME TypeInv, NEW h \in Handlers, FirstTime(h)
  PROVE  /\ pc[h] = "first_time"
         /\ Moves(h, IF work[h].msg \in processed THEN "ack"
                     ELSE IF Topic(h) = "invoice-submitted" THEN "register" ELSE "recall", work[h])
<1> DEFINE next == IF work[h].msg \in processed THEN "ack"
                   ELSE IF Topic(h) = "invoice-submitted" THEN "register" ELSE "recall"
<1>1. pc[h] = "first_time" /\ Goto(h, next) /\ UNCHANGED work
  BY DEF FirstTime
<1>2. work[h].msg \in Messages /\ ~work[h].duplicate
  BY <1>1, Held DEF LocalOf
<1>3. next \in Pcs /\ LocalOf(next, work[h])
  BY <1>2, MessageType DEF Pcs, BodyPcs, LocalOf, SubmissionPcs, Topic
<1> QED BY <1>1, <1>3, MovedOn

LEMMA RegisterMoves ==
  ASSUME TypeInv, NEW h \in Handlers, Register(h)
  PROVE  /\ pc[h] = "register"
         /\ \/ /\ owner[Fingerprint(Event(h))] = None
               /\ owner' = [owner EXCEPT ![Fingerprint(Event(h))] = Subject(h)]
               /\ Moves(h, "read_thresholds", work[h])
            \/ /\ owner[Fingerprint(Event(h))] # None
               /\ UNCHANGED owner
               /\ Moves(h, "read_owner", work[h])
<1>1. pc[h] = "register" /\ UNCHANGED work
  BY DEF Register
<1>2. \A next \in {"read_thresholds", "read_owner"} : next \in Pcs /\ LocalOf(next, work[h])
  BY <1>1, Held DEF Pcs, BodyPcs, LocalOf, SubmissionPcs
<1> QED BY <1>1, <1>2, MovedOn DEF Register

LEMMA ReadOwnerMoves ==
  ASSUME TypeInv, NEW h \in Handlers, ReadOwner(h)
  PROVE  /\ pc[h] = "read_owner"
         /\ \E existing \in {owner[Fingerprint(Event(h))], None} :
              /\ Finds(owner[Fingerprint(Event(h))], existing)
              /\ Moves(h, "read_thresholds",
                       [work[h] EXCEPT !.duplicate = IsDuplicate(existing, Subject(h))])
<1>1. pc[h] = "read_owner" /\ Goto(h, "read_thresholds")
  BY DEF ReadOwner
<1>2. PICK existing \in {owner[Fingerprint(Event(h))], None} :
        /\ Finds(owner[Fingerprint(Event(h))], existing)
        /\ work' = [work EXCEPT ![h] =
             [work[h] EXCEPT !.duplicate = IsDuplicate(existing, Subject(h))]]
  BY DEF ReadOwner
<1> DEFINE d == IsDuplicate(existing, Subject(h))
<1>3. d \in BOOLEAN
  BY DEF IsDuplicate
<1> HIDE DEF d
<1>4. [work[h] EXCEPT !.duplicate = d] \in Work
  BY <1>3, Held DEF Work
<1>5. LocalOf("read_thresholds", [work[h] EXCEPT !.duplicate = d]) /\ "read_thresholds" \in Pcs
  BY <1>1, Held DEF LocalOf, SubmissionPcs, Pcs, BodyPcs, Work
<1>6. Moves(h, "read_thresholds", [work[h] EXCEPT !.duplicate = d])
  BY <1>1, <1>2, <1>4, <1>5, Moved DEF d
<1> QED BY <1>1, <1>2, <1>6 DEF d

LEMMA ReadThresholdsMoves ==
  ASSUME TypeInv, NEW h \in Handlers, ReadThresholds(h)
  PROVE  /\ pc[h] = "read_thresholds"
         /\ \E next \in {"is_trusted", "write_defaults"}, t \in Thresholds :
              Moves(h, next, [work[h] EXCEPT !.thresholds = t])
<1>1. pc[h] = "read_thresholds" /\ thresholds \in Thresholds \cup {None}
  BY DEF ReadThresholds, TypeInv, TypeOK
<1>2. PICK next \in {"is_trusted", "write_defaults"}, t \in Thresholds :
        Goto(h, next) /\ work' = [work EXCEPT ![h] = [work[h] EXCEPT !.thresholds = t]]
  BY <1>1, DefaultsType DEF ReadThresholds
<1>3. t # None
  BY DecisionAssumption
<1>4. [work[h] EXCEPT !.thresholds = t] \in Work
  BY Held DEF Work
<1>5. LocalOf(next, [work[h] EXCEPT !.thresholds = t]) /\ next \in Pcs
  BY <1>1, <1>3, Held DEF LocalOf, SubmissionPcs, Pcs, BodyPcs, Work
<1>6. Moves(h, next, [work[h] EXCEPT !.thresholds = t])
  BY <1>2, <1>4, <1>5, Moved
<1> QED BY <1>1, <1>6

LEMMA IsTrustedMoves ==
  ASSUME TypeInv, NEW h \in Handlers, IsTrusted(h)
  PROVE  /\ pc[h] = "is_trusted"
         /\ \E trusted \in BOOLEAN : Moves(h, "remember", [work[h] EXCEPT !.trusted = trusted])
<1>1. pc[h] = "is_trusted" /\ Goto(h, "remember")
  BY DEF IsTrusted
<1>2. work[h] \in Work /\ LocalOf("is_trusted", work[h])
  BY <1>1, Held
<1>3. UNCHANGED work => work' = [work EXCEPT ![h] = [work[h] EXCEPT !.trusted = work[h].trusted]]
  <2>1. work[h] = [work[h] EXCEPT !.trusted = work[h].trusted]
    BY <1>2 DEF Work
  <2>2. work = [work EXCEPT ![h] = work[h]]
    BY DEF TypeInv, TypeOK
  <2> QED BY <2>1, <2>2
<1>4. PICK trusted \in BOOLEAN : work' = [work EXCEPT ![h] = [work[h] EXCEPT !.trusted = trusted]]
  <2>1. work[h].trusted \in BOOLEAN
    BY <1>2 DEF Work
  <2>2. CASE work' = [work EXCEPT ![h].trusted = Bucket(Event(h)) \in trust]
    <3> DEFINE b == Bucket(Event(h)) \in trust
    <3>1. b \in BOOLEAN
      OBVIOUS
    <3>2. work' = [work EXCEPT ![h] = [work[h] EXCEPT !.trusted = b]]
      BY <2>2
    <3> HIDE DEF b
    <3> QED BY <3>1, <3>2
  <2>3. CASE UNCHANGED work
    BY <1>3, <2>1, <2>3
  <2> QED BY <2>2, <2>3 DEF IsTrusted
<1>5. [work[h] EXCEPT !.trusted = trusted] \in Work
  BY <1>2 DEF Work
<1>6. LocalOf("remember", [work[h] EXCEPT !.trusted = trusted]) /\ "remember" \in Pcs
  BY <1>2 DEF LocalOf, SubmissionPcs, Pcs, BodyPcs, Work
<1>7. Moves(h, "remember", [work[h] EXCEPT !.trusted = trusted])
  BY <1>1, <1>4, <1>5, <1>6, Moved
<1> QED BY <1>1, <1>7

LEMMA RecallMoves ==
  ASSUME TypeInv, NEW h \in Handlers, Recall(h)
  PROVE  /\ pc[h] = "recall"
         /\ \E bucket \in {remembered[Event(h)], None} :
              Moves(h, IF bucket = None THEN "ack" ELSE "credit",
                    [work[h] EXCEPT !.bucket = bucket])
<1>1. pc[h] = "recall" /\ work[h] \in Work /\ LocalOf("recall", work[h])
  BY Held DEF Recall
<1>2. PICK bucket \in {remembered[Event(h)], None} :
        /\ Goto(h, IF bucket = None THEN "ack" ELSE "credit")
        /\ work' = [work EXCEPT ![h] = [work[h] EXCEPT !.bucket = bucket]]
  BY DEF Recall
<1>3. bucket \in Buckets \cup {None}
  BY <1>1, PaymentHeld DEF TypeInv, TypeOK
<1> DEFINE next == IF bucket = None THEN "ack" ELSE "credit"
<1>4. [work[h] EXCEPT !.bucket = bucket] \in Work
  BY <1>1, <1>3 DEF Work
<1>5. LocalOf(next, [work[h] EXCEPT !.bucket = bucket]) /\ next \in Pcs
  BY <1>1 DEF LocalOf, SubmissionPcs, Pcs, BodyPcs, Work
<1>6. Moves(h, next, [work[h] EXCEPT !.bucket = bucket])
  BY <1>2, <1>4, <1>5, Moved
<1> QED BY <1>1, <1>6

\* The actions that change nothing the handler holds.
LEMMA PlainMoves ==
  ASSUME TypeInv, NEW h \in Handlers, NEW next, UNCHANGED work, Goto(h, next),
         \/ pc[h] = "write_defaults" /\ next = "is_trusted"
         \/ pc[h] = "remember" /\ next = "publish"
         \/ pc[h] # "idle" /\ next \in {"ack", "forget"}
  PROVE  Moves(h, next, work[h])
<1>1. LocalOf(pc[h], work[h])
  BY Held
<1>2. next \in Pcs /\ LocalOf(next, work[h])
  BY <1>1 DEF LocalOf, Pcs, BodyPcs, SubmissionPcs
<1> QED BY <1>2, MovedOn

--------------------------------------------------------------------------------
(* Type correctness.                                                        *)

StoresTyped ==
  /\ unsent \subseteq Events /\ unacked \subseteq Messages /\ processed \subseteq Messages
  /\ owner \in [Fingerprints -> Invoices \cup {None}]
  /\ thresholds \in Thresholds \cup {None}
  /\ trust \subseteq Buckets
  /\ remembered \in [Invoices -> Buckets \cup {None}]
  /\ published \subseteq Decided
  /\ verdicts \subseteq Events \X Verdicts /\ paid \subseteq Events
  /\ tunings \in 0 .. MaxTunings

LEMMA TypeParts ==
  /\ TypeInv => StoresTyped
  /\ HandlersTyped /\ StoresTyped /\ faults \in [AllFaultKinds -> 0 .. MaxFaults] => TypeInv
  /\ HandlersTyped' /\ StoresTyped' /\ faults' \in [AllFaultKinds -> 0 .. MaxFaults] => TypeInv'
<1>1. TypeInv => StoresTyped
  BY DEF TypeInv, TypeOK, StoresTyped
<1>2. ASSUME HandlersTyped, StoresTyped, faults \in [AllFaultKinds -> 0 .. MaxFaults]
      PROVE  TypeInv
  <2>1. \A h \in Handlers : pc[h] = "publish" => work[h].thresholds # None
    BY <1>2 DEF HandlersTyped, LocalInv, LocalOf
  <2> QED BY <1>2, <2>1 DEF TypeInv, TypeOK, StoresTyped, HandlersTyped, Pcs
<1>3. ASSUME HandlersTyped', StoresTyped', faults' \in [AllFaultKinds -> 0 .. MaxFaults]
      PROVE  TypeInv'
  <2>1. \A h \in Handlers : pc'[h] = "publish" => work'[h].thresholds # None
    BY <1>3 DEF HandlersTyped, LocalInv, LocalOf
  <2> QED BY <1>3, <2>1 DEF TypeInv, TypeOK, StoresTyped, HandlersTyped, Pcs
<1> QED BY <1>1, <1>2, <1>3

\* What is done around the service about a submission.
Acts(e) == (\E verdict \in Verdicts : Review(e, verdict)) \/ Resubmit(e) \/ Pay(e)

\* A decision names an event, a route and a ceiling.
LEMMA SentTyped ==
  ASSUME TypeInv, NEW h \in Handlers, pc[h] = "publish", Sent(h)
  PROVE  \E d \in Decided : /\ published' = published \cup {d}
                            /\ d.event = Event(h)
                            /\ d.route = "duplicate" <=> work[h].duplicate
<1>1. Event(h) \in Events /\ Payload[Event(h)].data \in Invoice
  BY SubmissionHeld DEF SubmissionPcs, PayloadType
<1>2. work[h].duplicate \in BOOLEAN /\ work[h].thresholds \in Thresholds
  BY Held DEF Work, LocalOf
<1>3. PICK agent : published' = published \cup
        {[event   |-> Event(h),
          route   |-> Route(work[h].duplicate, agent, work[h].thresholds, work[h].trusted,
                            Payload[Event(h)].data),
          ceiling |-> EffectiveCeiling(work[h].thresholds, work[h].trusted,
                                       Payload[Event(h)].data)]}
  BY DEF Sent
<1> DEFINE r == Route(work[h].duplicate, agent, work[h].thresholds, work[h].trusted,
                      Payload[Event(h)].data)
           c == EffectiveCeiling(work[h].thresholds, work[h].trusted, Payload[Event(h)].data)
<1>4. /\ r \in {"auto_approve", "human_review", "reject", "duplicate"}
      /\ r = "duplicate" <=> work[h].duplicate
  BY <1>2, RouteType
<1>5. c \in Nat
  BY <1>1, <1>2, CeilingType
<1>6. published' = published \cup {[event |-> Event(h), route |-> r, ceiling |-> c]}
  BY <1>3
<1> HIDE DEF r, c
<1>7. [event |-> Event(h), route |-> r, ceiling |-> c] \in Decided
  BY <1>1, <1>4, <1>5 DEF Decided
<1> QED BY <1>4, <1>6, <1>7

LEMMA TypeStep ==
  ASSUME TypeInv, [Next]_vars
  PROVE  TypeInv'
<1> SUFFICES HandlersTyped' /\ StoresTyped'
  BY TypeParts, FaultsStay DEF TypeInv
<1>t. HandlersTyped /\ StoresTyped
  BY HandlersAreTyped, TypeParts
<1>1. ASSUME NEW h \in Handlers, NEW m \in unacked, Deliver(h, m)
      PROVE  HandlersTyped' /\ StoresTyped'
  BY <1>1, <1>t, DeliverMoves DEF Deliver, broker, stores, people, StoresTyped, Moves
<1>2. ASSUME NEW h \in Handlers, FirstTime(h) PROVE HandlersTyped' /\ StoresTyped'
  <2>1. work[h].msg \in Messages
    BY <1>2, Held DEF FirstTime
  <2> QED BY <1>2, <1>t, <2>1, FirstTimeMoves DEF FirstTime, broker, people, StoresTyped, Moves
<1>3. ASSUME NEW h \in Handlers, Register(h) PROVE HandlersTyped' /\ StoresTyped'
  <2>1. Subject(h) \in Invoices
    BY <1>3, RegisterMoves, SubmissionHeld DEF SubmissionPcs
  <2>2. HandlersTyped' /\ owner' \in [Fingerprints -> Invoices \cup {None}]
    BY <1>3, <1>t, <2>1, RegisterMoves DEF StoresTyped, Moves
  <2> QED BY <1>3, <1>t, <2>2 DEF Register, broker, people, StoresTyped
<1>4. ASSUME NEW h \in Handlers, ReadOwner(h) PROVE HandlersTyped' /\ StoresTyped'
  BY <1>4, <1>t, ReadOwnerMoves DEF ReadOwner, broker, stores, people, StoresTyped, Moves
<1>5. ASSUME NEW h \in Handlers, ReadThresholds(h) PROVE HandlersTyped' /\ StoresTyped'
  BY <1>5, <1>t, ReadThresholdsMoves DEF ReadThresholds, broker, stores, people, StoresTyped, Moves
<1>6. ASSUME NEW h \in Handlers, WriteDefaults(h) PROVE HandlersTyped' /\ StoresTyped'
  <2>1. HandlersTyped'
    BY <1>6, PlainMoves DEF WriteDefaults, Moves
  <2> QED BY <1>6, <1>t, <2>1, DefaultsType DEF WriteDefaults, broker, people, StoresTyped
<1>7. ASSUME NEW h \in Handlers, IsTrusted(h) PROVE HandlersTyped' /\ StoresTyped'
  BY <1>7, <1>t, IsTrustedMoves DEF IsTrusted, broker, stores, people, StoresTyped, Moves
<1>8. ASSUME NEW h \in Handlers, Remember(h) PROVE HandlersTyped' /\ StoresTyped'
  <2>1. HandlersTyped'
    BY <1>8, PlainMoves DEF Remember, Moves
  <2>2. Bucket(Event(h)) \in Buckets
    BY <1>8, SubmissionHeld DEF Remember, SubmissionPcs
  <2>3. remembered' \in [Invoices -> Buckets \cup {None}]
    BY <1>8, <1>t, <2>2 DEF Remember, StoresTyped
  <2> QED BY <1>8, <1>t, <2>1, <2>3 DEF Remember, broker, people, StoresTyped
<1>9. ASSUME NEW h \in Handlers, Publish(h) PROVE HandlersTyped' /\ StoresTyped'
  <2>1. HandlersTyped'
    BY <1>9, PlainMoves DEF Publish, Moves
  <2>2. published' \subseteq Decided
    BY <1>9, <1>t, SentTyped DEF Publish, StoresTyped
  <2> QED BY <1>9, <1>t, <2>1, <2>2 DEF Publish, broker, stores, people, StoresTyped
<1>10. ASSUME NEW h \in Handlers, Recall(h) PROVE HandlersTyped' /\ StoresTyped'
  BY <1>10, <1>t, RecallMoves DEF Recall, broker, stores, people, StoresTyped, Moves
<1>11. ASSUME NEW h \in Handlers, Credit(h) PROVE HandlersTyped' /\ StoresTyped'
  <2>1. HandlersTyped'
    BY <1>11, PlainMoves DEF Credit, Moves
  <2>2. work[h].bucket \in Buckets
    BY <1>11, Held DEF Credit, Work, LocalOf
  <2> QED BY <1>11, <1>t, <2>1, <2>2 DEF Credit, broker, people, StoresTyped
<1>12. ASSUME NEW h \in Handlers, Ack(h) \/ Forget(h) \/ ForgetFails(h)
       PROVE  HandlersTyped' /\ StoresTyped'
  <2>1. HandlersTyped'
    BY <1>12, Left DEF Ack, Forget, ForgetFails, Moves
  <2> QED BY <1>12, <1>t, <2>1 DEF Ack, Forget, ForgetFails, broker, stores, people, StoresTyped
<1>13. ASSUME NEW h \in Handlers, RaiseInFirstTime(h) PROVE HandlersTyped' /\ StoresTyped'
  <2>1. HandlersTyped' /\ work[h].msg \in Messages
    BY <1>13, Left, Held DEF RaiseInFirstTime, Moves
  <2> QED BY <1>13, <1>t, <2>1 DEF RaiseInFirstTime, broker, people, StoresTyped
<1>14. ASSUME NEW h \in Handlers, Raise(h) PROVE HandlersTyped' /\ StoresTyped'
  <2>1. HandlersTyped'
    BY <1>14, PlainMoves DEF Raise, BodyPcs, Moves
  <2> QED BY <1>14, <1>t, <2>1 DEF Raise, broker, stores, people, StoresTyped
<1>15. ASSUME NEW h \in Handlers, PublishIsLost(h) PROVE HandlersTyped' /\ StoresTyped'
  <2>1. HandlersTyped'
    BY <1>15, PlainMoves DEF PublishIsLost, Moves
  <2>2. published' \subseteq Decided
    BY <1>15, <1>t, SentTyped DEF PublishIsLost, StoresTyped
  <2> QED BY <1>15, <1>t, <2>1, <2>2 DEF PublishIsLost, broker, stores, people, StoresTyped
<1>16. CASE Crash
  <2>1. pc' = [h \in Handlers |-> "idle"] /\ work' = [h \in Handlers |-> NoWork]
    BY <1>16 DEF Crash
  <2>2. HandlersTyped'
    BY <2>1, NoWorkType DEF HandlersTyped, LocalInv, LocalOf, Pcs, SubmissionPcs
  <2> QED BY <1>16, <1>t, <2>2 DEF Crash, broker, stores, people, StoresTyped
<1>17. ASSUME UNCHANGED <<pc, work>>, StoresTyped' PROVE HandlersTyped' /\ StoresTyped'
  BY <1>t, <1>17 DEF HandlersTyped, LocalInv, LocalOf, NoWork, Messages
<1>18. ASSUME NEW c \in Tuned, Tune(c) PROVE UNCHANGED <<pc, work>> /\ StoresTyped'
  <2>1. c \in Nat /\ MaxTunings \in Nat
    BY DecisionAssumption
  <2>2. thresholds' \in Thresholds
    <3> DEFINE t == IF thresholds = None THEN DefaultThresholds ELSE thresholds
    <3>1. t \in Thresholds /\ thresholds' = [t EXCEPT !.ceiling = c]
      BY <1>t, <1>18, DefaultsType DEF Tune, StoresTyped
    <3> HIDE DEF t
    <3> QED BY <2>1, <3>1 DEF Thresholds
  <2>3. tunings' \in 0 .. MaxTunings
    BY <1>t, <1>18, <2>1 DEF Tune, StoresTyped
  <2> QED BY <1>t, <1>18, <2>2, <2>3 DEF Tune, broker, people, StoresTyped
<1>19. ASSUME NEW e \in Events, Acts(e)
       PROVE  UNCHANGED <<pc, work>> /\ StoresTyped'
  <2>1. <<"invoice-submitted", e>> \in Messages
        /\ <<"payment-completed", Payload[e].invoice>> \in Messages
    BY DecisionAssumption DEF Messages, PayloadType
  <2> QED BY <1>t, <1>19, <2>1 DEF Acts, Review, Resubmit, Pay, broker, stores, people, StoresTyped
<1>20. CASE UNCHANGED vars
  <2>1. UNCHANGED <<pc, work>> /\ StoresTyped'
    BY <1>t, <1>20 DEF vars, broker, stores, people, StoresTyped
  <2> QED BY <1>17, <2>1
<1>21. CASE Next
  BY <1>21, <1>1, <1>2, <1>3, <1>4, <1>5, <1>6, <1>7, <1>8, <1>9, <1>10, <1>11, <1>12, <1>13,
     <1>14, <1>15, <1>16, <1>17, <1>18, <1>19
  DEF Next, Step, Acts
<1> QED BY <1>20, <1>21

LEMMA TypeInit == Init => TypeInv
<1>1. NoWork \in Work /\ ~NoWork.duplicate
  BY NoWorkType
<1>2. MaxTunings \in Nat /\ MaxFaults \in Nat
  BY DecisionAssumption
<1>3. ASSUME Init PROVE HandlersTyped
  BY <1>1, <1>3 DEF Init, HandlersTyped, LocalInv, LocalOf, Pcs, SubmissionPcs
<1>4. ASSUME Init PROVE StoresTyped /\ faults \in [AllFaultKinds -> 0 .. MaxFaults]
  BY <1>2, <1>4 DEF Init, StoresTyped, Messages
<1> QED BY <1>3, <1>4, TypeParts

LEMMA TypeInvariant == Spec => []TypeInv
<1>1. TypeInv /\ [Next]_vars => TypeInv'
  BY TypeStep
<1> QED BY <1>1, TypeInit, PTL DEF Spec

\* Every variable keeps its type, whatever fails or is delivered twice; no submission is
\* routed without thresholds (pipeline.py:92-171).
THEOREM TypeCorrect == Spec => []TypeOK
<1>1. TypeInv => TypeOK
  BY DEF TypeInv
<1> QED BY <1>1, TypeInvariant, PTL

--------------------------------------------------------------------------------
(* What a step does: to a handler, to what is published, to the owners.     *)

\* From the registration of its fingerprint to the publish of its route.
Registered == {"read_thresholds", "write_defaults", "is_trusted", "remember", "publish"}

Stays(h) == pc'[h] = pc[h] /\ work'[h] = work[h]

\* The handler goes on with the same submission, or message.
GoesOn(h) == work'[h].msg = work[h].msg /\ work'[h].duplicate = work[h].duplicate

LEMMA WhoMoves ==
  ASSUME TypeInv, [Next]_vars, NEW h \in Handlers
  PROVE  \/ Stays(h)
         \/ \E m \in unacked : Deliver(h, m)
         \/ Step(h)
         \/ Raise(h) \/ PublishIsLost(h) \/ RaiseInFirstTime(h) \/ ForgetFails(h)
         \/ Crash
<1>1. ASSUME NEW g \in Handlers, NEW m \in unacked, Deliver(g, m)
      PROVE  g = h \/ Stays(h)
  BY <1>1, DeliverMoves DEF Moves, Others, Stays
<1>2. ASSUME NEW g \in Handlers, Step(g) PROVE g = h \/ Stays(h)
  <2>1. \E next, w : Moves(g, next, w)
    <3>1. FirstTime(g) => \E next, w : Moves(g, next, w)
      BY FirstTimeMoves
    <3>2. Register(g) => \E next, w : Moves(g, next, w)
      BY RegisterMoves
    <3>3. ReadOwner(g) => \E next, w : Moves(g, next, w)
      BY ReadOwnerMoves
    <3>4. ReadThresholds(g) => \E next, w : Moves(g, next, w)
      BY ReadThresholdsMoves
    <3>5. IsTrusted(g) => \E next, w : Moves(g, next, w)
      BY IsTrustedMoves
    <3>6. Recall(g) => \E next, w : Moves(g, next, w)
      BY RecallMoves
    <3>7. WriteDefaults(g) \/ Remember(g) \/ Publish(g) \/ Credit(g) => \E next, w : Moves(g, next, w)
      BY PlainMoves DEF WriteDefaults, Remember, Publish, Credit
    <3>8. Ack(g) \/ Forget(g) => \E next, w : Moves(g, next, w)
      BY Left DEF Ack, Forget
    <3> QED BY <1>2, <3>1, <3>2, <3>3, <3>4, <3>5, <3>6, <3>7, <3>8 DEF Step
  <2> QED BY <2>1 DEF Moves, Others, Stays
<1>3. ASSUME NEW g \in Handlers,
             Raise(g) \/ PublishIsLost(g) \/ RaiseInFirstTime(g) \/ ForgetFails(g)
      PROVE  g = h \/ Stays(h)
  <2>1. CASE Raise(g) \/ PublishIsLost(g)
    BY <2>1, PlainMoves DEF Raise, PublishIsLost, BodyPcs, Moves, Others, Stays
  <2>2. CASE RaiseInFirstTime(g) \/ ForgetFails(g)
    BY <2>2, Left DEF RaiseInFirstTime, ForgetFails, Moves, Others, Stays
  <2> QED BY <1>3, <2>1, <2>2
<1>4. ASSUME UNCHANGED vars \/ (\E c \in Tuned : Tune(c)) \/ (\E e \in Events : Acts(e))
      PROVE  Stays(h)
  BY <1>4 DEF vars, people, Tune, Acts, Review, Resubmit, Pay, Stays
<1> QED BY <1>1, <1>2, <1>3, <1>4 DEF Next, Acts

LEMMA HandlerKinds ==
  ASSUME TypeInv, [Next]_vars, NEW h \in Handlers
  PROVE  \/ Stays(h)
         \/ pc'[h] = "idle"
         \/ \E m \in unacked : Deliver(h, m)
         \/ FirstTime(h)
         \/ Register(h)
         \/ ReadOwner(h)
         \/ pc[h] \in Registered /\ pc'[h] \in Registered \cup {"ack", "forget"} /\ GoesOn(h)
         \/ pc[h] \in BodyPcs /\ pc'[h] \in {"ack", "forget"} /\ GoesOn(h)
         \/ pc[h] = "recall" /\ pc'[h] = "credit" /\ GoesOn(h)
<1>w. work[h] \in Work
  BY Held
<1>1. ASSUME ReadThresholds(h) PROVE pc[h] \in Registered /\ pc'[h] \in Registered /\ GoesOn(h)
  <2>1. PICK next \in {"is_trusted", "write_defaults"}, t \in Thresholds :
          Moves(h, next, [work[h] EXCEPT !.thresholds = t])
    BY <1>1, ReadThresholdsMoves
  <2> QED BY <1>1, <1>w, <2>1, ReadThresholdsMoves DEF Moves, GoesOn, Registered, Work
<1>2. ASSUME WriteDefaults(h) PROVE pc[h] \in Registered /\ pc'[h] \in Registered /\ GoesOn(h)
  BY <1>2, PlainMoves DEF WriteDefaults, Moves, GoesOn, Registered
<1>3. ASSUME IsTrusted(h) PROVE pc[h] \in Registered /\ pc'[h] \in Registered /\ GoesOn(h)
  <2>1. PICK trusted \in BOOLEAN : Moves(h, "remember", [work[h] EXCEPT !.trusted = trusted])
    BY <1>3, IsTrustedMoves
  <2> QED BY <1>3, <1>w, <2>1, IsTrustedMoves DEF Moves, GoesOn, Registered, Work
<1>4. ASSUME Remember(h) PROVE pc[h] \in Registered /\ pc'[h] \in Registered /\ GoesOn(h)
  BY <1>4, PlainMoves DEF Remember, Moves, GoesOn, Registered
<1>5. ASSUME Publish(h) \/ Credit(h) PROVE pc[h] \in BodyPcs /\ pc'[h] = "ack" /\ GoesOn(h)
  BY <1>5, PlainMoves DEF Publish, Credit, Moves, GoesOn, BodyPcs
<1>6. ASSUME Raise(h) \/ PublishIsLost(h)
      PROVE  pc[h] \in BodyPcs /\ pc'[h] = "forget" /\ GoesOn(h)
  BY <1>6, PlainMoves DEF Raise, PublishIsLost, Moves, GoesOn, BodyPcs
<1>7. ASSUME Recall(h)
      PROVE  pc[h] = "recall" /\ pc'[h] \in {"ack", "credit"} /\ GoesOn(h)
  <2>1. PICK bucket \in {remembered[Event(h)], None} :
          Moves(h, IF bucket = None THEN "ack" ELSE "credit", [work[h] EXCEPT !.bucket = bucket])
    BY <1>7, RecallMoves
  <2> QED BY <1>7, <1>w, <2>1, RecallMoves DEF Moves, GoesOn, Work
<1>8. ASSUME Ack(h) \/ Forget(h) \/ RaiseInFirstTime(h) \/ ForgetFails(h) PROVE pc'[h] = "idle"
  BY <1>8, Left DEF Ack, Forget, RaiseInFirstTime, ForgetFails, Moves
<1>9. ASSUME Crash PROVE pc'[h] = "idle"
  BY <1>9 DEF Crash
<1> QED
  BY WhoMoves, <1>1, <1>2, <1>3, <1>4, <1>5, <1>6, <1>7, <1>8, <1>9 DEF Step, BodyPcs

LEMMA Publications ==
  ASSUME TypeInv, [Next]_vars
  PROVE  \/ UNCHANGED published
         \/ \E h \in Handlers, d \in Decided :
              /\ Publish(h) \/ PublishIsLost(h)
              /\ published' = published \cup {d}
              /\ d.event = Event(h) /\ Event(h) \in Events
              /\ d.route = "duplicate" <=> work[h].duplicate
<1>1. ASSUME NEW h \in Handlers, Publish(h) \/ PublishIsLost(h)
      PROVE  \E d \in Decided : /\ published' = published \cup {d}
                                /\ d.event = Event(h) /\ Event(h) \in Events
                                /\ d.route = "duplicate" <=> work[h].duplicate
  <2>1. pc[h] = "publish" /\ Sent(h)
    BY <1>1 DEF Publish, PublishIsLost
  <2> QED BY <2>1, SentTyped, SubmissionHeld DEF SubmissionPcs
<1> QED
  BY <1>1
  DEF Next, vars, people, Step, Deliver, FirstTime, Register, ReadOwner, ReadThresholds, WriteDefaults,
      IsTrusted, Remember, Recall, Credit, Ack, Forget, Tune, Review, Resubmit, Pay, Raise,
      RaiseInFirstTime, ForgetFails, Crash

\* An owner stays; a new one is registered by its own submission.
LEMMA Registrations ==
  ASSUME TypeInv, [Next]_vars
  PROVE  \A f \in Fingerprints : owner[f] # None => owner'[f] = owner[f]
<1>1. ASSUME NEW h \in Handlers, Register(h)
      PROVE  \A f \in Fingerprints : owner[f] # None => owner'[f] = owner[f]
  BY <1>1, RegisterMoves DEF TypeInv, TypeOK
<1> QED
  BY <1>1
  DEF Next, vars, people, stores, Step, Deliver, FirstTime, ReadOwner, ReadThresholds, WriteDefaults,
      IsTrusted, Remember, Publish, Recall, Credit, Ack, Forget, Tune, Review, Resubmit, Pay, Raise,
      PublishIsLost, RaiseInFirstTime, ForgetFails, Crash

--------------------------------------------------------------------------------
(* One owner: who was not found a duplicate owns its fingerprint, and, unless *)
(* a read missed it, who was is not the owner.                              *)

OwnerOf(e) == owner[Fingerprint(e)]

HandlerOwns(h) ==
  /\ pc[h] = "read_owner" => OwnerOf(Event(h)) # None
  /\ pc[h] \in Registered =>
       /\ ~work[h].duplicate => OwnerOf(Event(h)) = Subject(h)
       /\ ~Suffered({"miss"}) /\ work[h].duplicate => OwnerOf(Event(h)) \notin {None, Subject(h)}

DecidedRight(d) ==
  /\ d.route # "duplicate" => OwnerOf(d.event) = Payload[d.event].invoice
  /\ ~Suffered({"miss"}) /\ d.route = "duplicate" =>
       OwnerOf(d.event) \notin {None, Payload[d.event].invoice}

OwnerInv ==
  /\ \A h \in Handlers : HandlerOwns(h)
  /\ \A d \in published : DecidedRight(d)

LEMMA HandlerOwnsStep ==
  ASSUME TypeInv, OwnerInv, [Next]_vars, NEW h \in Handlers
  PROVE  HandlerOwns(h)'
<1>1. /\ HandlerOwns(h)
      /\ \A f \in Fingerprints : owner[f] # None => owner'[f] = owner[f]
      /\ Suffered({"miss"}) => Suffered({"miss"})'
  BY Registrations, FaultsStay DEF OwnerInv, TypeInv, Suffered, AllFaultKinds
<1>2. pc[h] \in Registered \cup {"read_owner", "register"} =>
        /\ Fingerprint(Event(h)) \in Fingerprints
        /\ Subject(h) # None
  BY SubmissionHeld DEF Registered, SubmissionPcs
<1>3. ASSUME Stays(h) \/ (pc[h] \in Registered /\ pc'[h] \in Registered /\ GoesOn(h))
      PROVE  HandlerOwns(h)'
  <2>1. work'[h].msg = work[h].msg /\ work'[h].duplicate = work[h].duplicate
    BY <1>3 DEF Stays, GoesOn
  <2>2. /\ Event(h)' = Event(h) /\ Subject(h)' = Subject(h)
        /\ Fingerprint(Event(h)') = Fingerprint(Event(h))
    BY <2>1 DEF Event, Subject
  <2>3. \/ pc'[h] \in Registered /\ pc[h] \in Registered
        \/ pc'[h] = "read_owner" /\ pc[h] = "read_owner"
        \/ pc'[h] \notin Registered \cup {"read_owner"}
    BY <1>3 DEF Stays, Registered
  <2>4. pc[h] \in Registered \cup {"read_owner"} /\ OwnerOf(Event(h)) # None =>
          OwnerOf(Event(h))' = OwnerOf(Event(h))
    BY <1>1, <1>2, <2>2 DEF OwnerOf
  <2> QED BY <1>1, <1>2, <2>1, <2>2, <2>3, <2>4 DEF HandlerOwns, Registered
<1>4. ASSUME pc'[h] \notin Registered \cup {"read_owner"} PROVE HandlerOwns(h)'
  BY <1>4 DEF HandlerOwns
<1>5. CASE Register(h)
  <2>1. pc[h] = "register" /\ ~work[h].duplicate /\ work'[h] = work[h]
        /\ owner \in [Fingerprints -> Invoices \cup {None}]
    BY <1>5, RegisterMoves, Held DEF LocalOf, Moves, TypeInv, TypeOK
  <2>2. /\ Event(h)' = Event(h) /\ Subject(h)' = Subject(h)
        /\ Fingerprint(Event(h)') = Fingerprint(Event(h))
    BY <2>1 DEF Event, Subject
  <2>3. CASE OwnerOf(Event(h)) = None
    <3>1. owner'[Fingerprint(Event(h))] = Subject(h) /\ pc'[h] = "read_thresholds"
      BY <1>2, <1>5, <2>1, <2>3, RegisterMoves DEF OwnerOf, Moves
    <3> QED BY <2>1, <2>2, <3>1 DEF HandlerOwns, OwnerOf
  <2>4. CASE OwnerOf(Event(h)) # None
    <3>1. pc'[h] = "read_owner" /\ UNCHANGED owner
      BY <1>5, <2>4, RegisterMoves DEF OwnerOf, Moves
    <3> QED BY <2>2, <2>4, <3>1 DEF HandlerOwns, OwnerOf, Registered
  <2> QED BY <2>3, <2>4
<1>6. CASE ReadOwner(h)
  <2>1. PICK existing \in {OwnerOf(Event(h)), None} :
          /\ Finds(OwnerOf(Event(h)), existing)
          /\ Moves(h, "read_thresholds",
                   [work[h] EXCEPT !.duplicate = IsDuplicate(existing, Subject(h))])
    BY <1>6, ReadOwnerMoves DEF OwnerOf
  <2>2. /\ pc[h] = "read_owner" /\ pc'[h] = "read_thresholds" /\ UNCHANGED owner
        /\ work[h] \in Work
    BY <1>6, <2>1, Held DEF ReadOwner, Moves, stores
  <2>3. work'[h].msg = work[h].msg /\ work'[h].duplicate = (existing # Subject(h))
    BY <2>1, <2>2 DEF Moves, Work, IsDuplicate
  <2>4. existing = OwnerOf(Event(h)) \/ (existing = None /\ Suffered({"miss"})')
    BY <2>1, FaultCounted DEF Finds, Suffered, TypeInv
  <2>5. /\ OwnerOf(Event(h))' = OwnerOf(Event(h)) /\ Subject(h)' = Subject(h)
        /\ OwnerOf(Event(h)) # None
    BY <1>1, <2>2, <2>3 DEF Event, Subject, OwnerOf, HandlerOwns
  <2> QED BY <1>2, <2>2, <2>3, <2>4, <2>5 DEF HandlerOwns
<1>7. ASSUME (\E m \in unacked : Deliver(h, m)) \/ FirstTime(h)
      PROVE  pc'[h] \notin Registered \cup {"read_owner"}
  BY <1>7, DeliverMoves, FirstTimeMoves DEF Moves, Registered
<1> QED BY HandlerKinds, <1>3, <1>4, <1>5, <1>6, <1>7 DEF Registered

LEMMA OwnerStep ==
  ASSUME TypeInv, OwnerInv, [Next]_vars
  PROVE  OwnerInv'
<1>1. \A h \in Handlers : HandlerOwns(h)'
  BY HandlerOwnsStep
<1>2. /\ \A f \in Fingerprints : owner[f] # None => owner'[f] = owner[f]
      /\ Suffered({"miss"}) => Suffered({"miss"})'
  BY Registrations, FaultsStay DEF TypeInv, Suffered, AllFaultKinds
<1>3. ASSUME NEW d \in Decided, DecidedRight(d) PROVE DecidedRight(d)'
  <2>1. /\ Fingerprint(d.event) \in Fingerprints
        /\ Payload[d.event].invoice # None
    BY DecisionAssumption DEF Decided, Fingerprints, PayloadType
  <2> QED BY <1>2, <1>3, <2>1 DEF DecidedRight, OwnerOf
<1>4. \A d \in published : d \in Decided /\ DecidedRight(d)
  BY DEF TypeInv, TypeOK, OwnerInv
<1>5. CASE UNCHANGED published
  BY <1>1, <1>3, <1>4, <1>5 DEF OwnerInv
<1>6. ASSUME NEW h \in Handlers, NEW d \in Decided,
             Publish(h) \/ PublishIsLost(h),
             published' = published \cup {d},
             d.event = Event(h),
             d.route = "duplicate" <=> work[h].duplicate
      PROVE  OwnerInv'
  <2>1. pc[h] = "publish"
    BY <1>6 DEF Publish, PublishIsLost
  <2>2. DecidedRight(d)
    BY <1>6, <2>1 DEF OwnerInv, HandlerOwns, Registered, DecidedRight, Subject
  <2> QED BY <1>1, <1>3, <1>4, <1>6, <2>2 DEF OwnerInv
<1> QED BY <1>5, <1>6, Publications

LEMMA OwnerInvariant == Spec => [](TypeInv /\ OwnerInv)
<1>1. Init => OwnerInv
  BY DEF Init, OwnerInv, HandlerOwns, Registered
<1>2. TypeInv /\ OwnerInv /\ [Next]_vars => OwnerInv'
  BY OwnerStep
<1> QED BY <1>1, <1>2, TypeInvariant, PTL DEF Spec

\* However submissions race, fail and are delivered again, those that share vendor,
\* number and total and are decided on their merits are of one invoice
\* (fingerprint.py:57-88, pipeline.py:7-12).
THEOREM OneIsDecided == Spec => []OneOwner
<1>1. OwnerInv => OneOwner
  BY DEF OwnerInv, DecidedRight, OneOwner, OwnerOf
<1> QED BY <1>1, OwnerInvariant, PTL

\* As long as no read misses a key that exists, a duplicate is one of another invoice,
\* which is registered (fingerprint.py:57-88).
THEOREM DuplicatesHaveOriginals == Spec => []DuplicateOfAnother
<1>1. OwnerInv => DuplicateOfAnother
  BY DEF OwnerInv, DecidedRight, DuplicateOfAnother, OwnerOf
<1> QED BY <1>1, OwnerInvariant, PTL

--------------------------------------------------------------------------------
(* One route: behind its mark a message has one handler, which has not       *)
(* published, and the mark of what was published stays, unless a publish    *)
(* raised that the broker took.                                             *)

Past(h) == pc[h] \in BodyPcs \cup {"forget"}

IsPublished(e) == \E d \in published : d.event = e

Submission(e) == <<"invoice-submitted", e>>

AloneInv ==
  /\ \A h \in Handlers : Past(h) => work[h].msg \in processed
  /\ \A g, h \in Handlers : Past(g) /\ Past(h) /\ work[g].msg = work[h].msg => g = h

OnceInv ==
  /\ \A h \in Handlers : Past(h) => \A e \in Events : work[h].msg = Submission(e) => ~IsPublished(e)
  /\ \A e \in Events : IsPublished(e) => Submission(e) \in processed
  /\ \A d1, d2 \in published : d1.event = d2.event => d1 = d2

\* Who is past its mark was so before, or has just made it.
LEMMA WhoIsPast ==
  ASSUME TypeInv, [Next]_vars, NEW h \in Handlers, Past(h)'
  PROVE  /\ work'[h].msg = work[h].msg
         /\ \/ Past(h)
            \/ FirstTime(h) /\ work[h].msg \notin processed
<1>1. CASE Stays(h)
  BY <1>1 DEF Stays, Past
<1>2. CASE pc'[h] = "idle" \/ \E m \in unacked : Deliver(h, m)
  <2>1. pc'[h] \in {"idle", "first_time"}
    BY <1>2, DeliverMoves DEF Moves
  <2> QED BY <2>1 DEF Past, BodyPcs
<1>3. CASE FirstTime(h)
  BY <1>3, FirstTimeMoves DEF Moves, Past, BodyPcs
<1>4. CASE Register(h)
  BY <1>4, RegisterMoves DEF Moves, Past, BodyPcs
<1>5. CASE ReadOwner(h)
  <2>1. work[h] \in Work /\ pc[h] = "read_owner"
    BY <1>5, Held DEF ReadOwner
  <2>2. PICK existing :
          Moves(h, "read_thresholds",
                [work[h] EXCEPT !.duplicate = IsDuplicate(existing, Subject(h))])
    BY <1>5, ReadOwnerMoves
  <2> QED BY <2>1, <2>2 DEF Moves, Past, BodyPcs, Work
<1>6. CASE pc[h] \in Registered \cup BodyPcs /\ GoesOn(h)
  BY <1>6 DEF Past, BodyPcs, Registered, GoesOn
<1> QED BY HandlerKinds, <1>1, <1>2, <1>3, <1>4, <1>5, <1>6 DEF BodyPcs

\* A mark goes only with the handler that forgets it, and comes with its handler.
LEMMA Marks ==
  ASSUME TypeInv, [Next]_vars
  PROVE  /\ processed \subseteq processed'
              \/ \E h \in Handlers : /\ pc[h] = "forget" /\ pc'[h] = "idle"
                                     /\ processed' = processed \ {work[h].msg}
                                     /\ UNCHANGED published
         /\ \A h \in Handlers : FirstTime(h) => /\ processed' = processed \cup {work[h].msg}
                                                /\ UNCHANGED published
                                                /\ \A g \in Handlers \ {h} : Stays(g)
<1>1. ASSUME NEW h \in Handlers, Forget(h)
      PROVE  /\ pc[h] = "forget" /\ pc'[h] = "idle"
             /\ processed' = processed \ {work[h].msg} /\ UNCHANGED published
  BY <1>1, Left DEF Forget, Moves
<1>2. ASSUME NEW h \in Handlers, FirstTime(h)
      PROVE  /\ processed' = processed \cup {work[h].msg} /\ UNCHANGED published
             /\ \A g \in Handlers \ {h} : Stays(g)
  BY <1>2, FirstTimeMoves DEF FirstTime, Moves, Others, Stays
<1>3. (\A h \in Handlers : ~Forget(h)) => processed \subseteq processed'
  BY DEF Next, vars, people, stores, Step, Deliver, FirstTime, Register, ReadOwner, ReadThresholds,
         WriteDefaults, IsTrusted, Remember, Publish, Recall, Credit, Ack, Tune, Review, Resubmit, Pay,
         Raise, PublishIsLost, RaiseInFirstTime, ForgetFails, Crash
<1> QED BY <1>1, <1>2, <1>3

LEMMA AloneStep ==
  ASSUME TypeInv, AloneInv, [Next]_vars
  PROVE  AloneInv'
<1>1. ASSUME NEW g \in Handlers, Past(g)' PROVE work'[g].msg \in processed'
  <2>1. work'[g].msg = work[g].msg
    BY <1>1, WhoIsPast
  <2>2. CASE Past(g)
    <3>1. work[g].msg \in processed
      BY <2>2 DEF AloneInv
    <3>2. ASSUME NEW h \in Handlers, pc[h] = "forget", pc'[h] = "idle"
          PROVE  work[g].msg # work[h].msg
      <4>1. g # h
        BY <1>1, <3>2 DEF Past, BodyPcs
      <4>2. Past(h)
        BY <3>2 DEF Past
      <4> QED BY <2>2, <4>1, <4>2 DEF AloneInv
    <3> QED BY <2>1, <3>1, <3>2, Marks
  <2>3. CASE FirstTime(g)
    BY <2>1, <2>3, Marks
  <2> QED BY <1>1, <2>2, <2>3, WhoIsPast
<1>2. ASSUME NEW g \in Handlers, NEW h \in Handlers, Past(g)', Past(h)',
             work'[g].msg = work'[h].msg
      PROVE  g = h
  <2>1. work[g].msg = work[h].msg
    BY <1>2, WhoIsPast
  <2>2. CASE Past(g) /\ Past(h)
    BY <2>1, <2>2 DEF AloneInv
  <2>3. ASSUME NEW a \in Handlers, NEW b \in Handlers, FirstTime(a), Past(b)',
               work[a].msg \notin processed, work[a].msg = work[b].msg
        PROVE  a = b
    <3> SUFFICES ASSUME a # b PROVE FALSE
      OBVIOUS
    <3>1. Stays(b)
      BY <2>3, Marks
    <3>2. Past(b)
      BY <2>3, <3>1 DEF Stays, Past
    <3> QED BY <2>3, <3>2 DEF AloneInv
  <2> QED BY <1>2, <2>1, <2>2, <2>3, WhoIsPast
<1> QED BY <1>1, <1>2 DEF AloneInv

LEMMA OnceStep ==
  ASSUME TypeInv, AloneInv, OnceInv, [Next]_vars, ~Suffered({"lost"})'
  PROVE  OnceInv'
<1>1. ASSUME NEW h \in Handlers, PublishIsLost(h) PROVE FALSE
  BY <1>1, FaultCounted DEF PublishIsLost, Suffered, TypeInv
<1>2. CASE UNCHANGED published
  <2>1. \A e : IsPublished(e)' <=> IsPublished(e)
    BY <1>2 DEF IsPublished
  <2>2. ASSUME NEW h \in Handlers, Past(h)', NEW e \in Events, work'[h].msg = Submission(e)
        PROVE  ~IsPublished(e)
    BY <2>2, WhoIsPast DEF OnceInv
  <2>3. ASSUME NEW e \in Events, IsPublished(e) PROVE Submission(e) \in processed'
    <3>1. Submission(e) \in processed
      BY <2>3 DEF OnceInv
    <3>2. ASSUME NEW h \in Handlers, pc[h] = "forget" PROVE work[h].msg # Submission(e)
      BY <2>3, <3>2 DEF OnceInv, Past
    <3> QED BY <3>1, <3>2, Marks
  <2> QED BY <1>2, <2>1, <2>2, <2>3 DEF OnceInv, Submission
<1>3. ASSUME NEW h \in Handlers, NEW d \in Decided, Publish(h),
             published' = published \cup {d}, d.event = Event(h), Event(h) \in Events
      PROVE  OnceInv'
  <2>1. /\ pc[h] = "publish" /\ pc'[h] = "ack" /\ UNCHANGED processed
        /\ \A g \in Handlers \ {h} : Stays(g)
    BY <1>3, PlainMoves DEF Publish, stores, Moves, Others, Stays
  <2>2. Past(h) /\ work[h].msg = Submission(Event(h))
    BY <2>1, SubmissionHeld DEF SubmissionPcs, Past, BodyPcs, Submission
  <2>3. ~IsPublished(Event(h)) /\ Submission(Event(h)) \in processed
    BY <1>3, <2>2 DEF OnceInv, AloneInv
  <2>4. \A e : IsPublished(e)' <=> IsPublished(e) \/ e = Event(h)
    BY <1>3 DEF IsPublished
  <2>5. ASSUME NEW g \in Handlers, Past(g)', NEW e \in Events, work'[g].msg = Submission(e)
        PROVE  ~IsPublished(e)'
    <3>1. g # h
      BY <2>1, <2>5 DEF Past, BodyPcs
    <3>2. Past(g) /\ work[g].msg = Submission(e)
      BY <2>1, <2>5, <3>1 DEF Stays, Past
    <3>3. e # Event(h)
      BY <2>2, <3>1, <3>2 DEF AloneInv
    <3> QED BY <2>4, <3>2, <3>3 DEF OnceInv
  <2>6. \A e \in Events : IsPublished(e)' => Submission(e) \in processed'
    BY <2>1, <2>3, <2>4 DEF OnceInv
  <2>7. \A d1, d2 \in published' : d1.event = d2.event => d1 = d2
    BY <1>3, <2>3 DEF OnceInv, IsPublished
  <2> QED BY <2>5, <2>6, <2>7 DEF OnceInv, Submission
<1> QED BY <1>1, <1>2, <1>3, Publications

LostInv == ~Suffered({"lost"}) => OnceInv

LEMMA LostStays ==
  ASSUME TypeInv, [Next]_vars, ~Suffered({"lost"})'
  PROVE  ~Suffered({"lost"})
BY FaultsStay DEF TypeInv, Suffered, AllFaultKinds

LEMMA OnceInvariant == Spec => [](TypeInv /\ AloneInv /\ LostInv)
<1>1. Init => AloneInv /\ OnceInv
  BY DEF Init, AloneInv, OnceInv, Past, BodyPcs, IsPublished
<1>2. TypeInv /\ AloneInv /\ LostInv /\ [Next]_vars => AloneInv' /\ LostInv'
  BY AloneStep, OnceStep, LostStays DEF LostInv
<1>3. Init => LostInv
  BY <1>1 DEF LostInv
<1> QED BY <1>1, <1>2, <1>3, TypeInvariant, PTL DEF Spec

\* A submission is decided once, however often it is delivered, unless the broker took a
\* decision whose publish raised (dedupe.py:36-49, subscriptions.py:59-100).
THEOREM DecidedOnce == Spec => []OneRoute
<1>1. LostInv => OneRoute
  BY DEF LostInv, OnceInv, OneRoute
<1> QED BY <1>1, OnceInvariant, PTL

--------------------------------------------------------------------------------
(* Trust: what is delivered was sent, the rounds of an invoice follow one    *)
(* another, and who publishes last is who is remembered.                    *)

Vouched(m) ==
  /\ m[1] = "invoice-submitted" => m[2] \notin unsent
  /\ m[1] = "payment-completed" => m[2] \in PaidInvoices

\* No later submission of its invoice was made.
Latest(e) ==
  \A x \in Events \ unsent : Payload[x].invoice = Payload[e].invoice
                               => Payload[x].round <= Payload[e].round

Before(x, e) ==
  Payload[x].invoice = Payload[e].invoice /\ Payload[x].round < Payload[e].round

SentInv ==
  /\ \A m \in unacked : Vouched(m)
  /\ \A h \in Handlers : pc[h] # "idle" => Vouched(work[h].msg)
  /\ \A e \in Events : IsPublished(e) => e \notin unsent
  /\ \A e \in Events, verdict \in Verdicts : Said(e, verdict) => HasRoute(e, {"human_review"})
  /\ ~Suffered({"again"}) =>
       \A e \in Events : ~(Said(e, "approved") /\ Said(e, "needs_info"))
  /\ \A e \in paid : HasRoute(e, {"auto_approve"}) \/ Said(e, "approved")
  /\ \A e \in Events \ unsent, x \in Events : Before(x, e) => Said(x, "needs_info")

\* Every resubmission of an invoice opens a round of its own.
OneEventPerRound ==
  \A e, x \in Events : (/\ Payload[e].invoice = Payload[x].invoice
                        /\ Payload[e].round = Payload[x].round) => e = x

\* What happened stays: events exist, decisions are out, payments are made.
LEMMA History ==
  ASSUME TypeInv, [Next]_vars
  PROVE  /\ unsent' \subseteq unsent
         /\ paid \subseteq paid' /\ PaidInvoices \subseteq PaidInvoices'
         /\ \A e : IsPublished(e) => IsPublished(e)'
         /\ \A e, routes : HasRoute(e, routes) => HasRoute(e, routes)'
         /\ \A e, verdict : Said(e, verdict) => Said(e, verdict)'
<1>1. unsent' \subseteq unsent /\ paid \subseteq paid' /\ verdicts \subseteq verdicts'
  BY DEF Next, vars, people, broker, stores, Step, Deliver, FirstTime, Register, ReadOwner,
         ReadThresholds, WriteDefaults, IsTrusted, Remember, Publish, Recall, Credit, Ack,
         Forget, Tune, Review, Resubmit, Pay, Raise, PublishIsLost, RaiseInFirstTime, ForgetFails, Crash
<1>2. published \subseteq published'
  BY Publications
<1> QED BY <1>1, <1>2 DEF PaidInvoices, IsPublished, HasRoute, Said

LEMMA Sendings ==
  ASSUME [Next]_vars
  PROVE  \/ UNCHANGED <<unsent, people>> /\ unacked' \subseteq unacked
         \/ \E e \in Events : Acts(e)
BY DEF Next, vars, people, broker, stores, Step, Deliver, FirstTime, Register, ReadOwner,
       ReadThresholds, WriteDefaults, IsTrusted, Remember, Publish, Recall, Credit, Ack,
       Forget, Tune, Acts, Raise, PublishIsLost, RaiseInFirstTime, ForgetFails, Crash

LEMMA WhoHolds ==
  ASSUME TypeInv, [Next]_vars, NEW h \in Handlers, pc'[h] # "idle"
  PROVE  \/ pc[h] # "idle" /\ work'[h].msg = work[h].msg
         \/ work'[h].msg \in unacked
<1>1. CASE Stays(h) \/ (pc[h] \in BodyPcs \cup Registered /\ GoesOn(h))
  BY <1>1 DEF Stays, GoesOn, BodyPcs, Registered
<1>2. ASSUME NEW m \in unacked, Deliver(h, m) PROVE work'[h].msg \in unacked
  BY <1>2, DeliverMoves DEF Moves, NoWork
<1>3. CASE FirstTime(h)
  BY <1>3, FirstTimeMoves DEF Moves
<1>4. CASE Register(h)
  BY <1>4, RegisterMoves DEF Moves
<1>5. CASE ReadOwner(h)
  <2>1. work[h] \in Work /\ pc[h] = "read_owner"
    BY <1>5, Held DEF ReadOwner
  <2>2. PICK existing :
          Moves(h, "read_thresholds",
                [work[h] EXCEPT !.duplicate = IsDuplicate(existing, Subject(h))])
    BY <1>5, ReadOwnerMoves
  <2> QED BY <2>1, <2>2 DEF Moves, Work
<1> QED BY HandlerKinds, <1>1, <1>2, <1>3, <1>4, <1>5 DEF BodyPcs

LEMMA SentStep ==
  ASSUME TypeInv, SentInv, OneEventPerRound, [Next]_vars
  PROVE  SentInv'
<1>1. \A m : Vouched(m) => Vouched(m)'
  BY History DEF Vouched
<1>2. ASSUME NEW m \in unacked' PROVE Vouched(m)'
  <2>1. CASE m \in unacked
    BY <1>1, <2>1 DEF SentInv
  <2>2. ASSUME NEW e \in Events, Resubmit(e), m \notin unacked PROVE Vouched(m)'
    BY <1>2, <2>2 DEF Resubmit, Vouched
  <2>3. ASSUME NEW e \in Events, Pay(e), m \notin unacked PROVE Vouched(m)'
    BY <1>2, <2>3 DEF Pay, Vouched, PaidInvoices
  <2>4. ASSUME NEW e \in Events, NEW verdict \in Verdicts, Review(e, verdict) PROVE m \in unacked
    BY <1>2, <2>4 DEF Review, broker
  <2> QED BY <1>2, <2>1, <2>2, <2>3, <2>4, Sendings DEF Acts
<1>3. ASSUME NEW h \in Handlers, pc'[h] # "idle" PROVE Vouched(work[h].msg)'
  BY <1>1, <1>3, WhoHolds DEF SentInv
<1>4. ASSUME NEW e \in Events, IsPublished(e)' PROVE e \notin unsent'
  <2>1. CASE IsPublished(e)
    BY <2>1, History DEF SentInv
  <2>2. ASSUME NEW h \in Handlers, Publish(h) \/ PublishIsLost(h), e = Event(h)
        PROVE  e \notin unsent
    <3>1. pc[h] = "publish"
      BY <2>2 DEF Publish, PublishIsLost
    <3>2. work[h].msg = <<"invoice-submitted", e>>
      BY <2>2, <3>1, SubmissionHeld DEF SubmissionPcs
    <3> QED BY <3>1, <3>2 DEF SentInv, Vouched
  <2> QED BY <1>4, <2>1, <2>2, Publications, History DEF IsPublished
<1>5. ASSUME NEW e \in Events, NEW verdict \in Verdicts, Said(e, verdict)'
      PROVE  HasRoute(e, {"human_review"})'
  <2>1. CASE Said(e, verdict)
    BY <2>1, History DEF SentInv
  <2>2. CASE ~Said(e, verdict)
    <3>1. PICK x \in Events, other \in Verdicts : Review(x, other)
      BY <1>5, <2>2, Sendings DEF Acts, Resubmit, Pay, people, Said
    <3>2. x = e
      BY <1>5, <2>2, <3>1 DEF Review, Said
    <3> QED BY <3>1, <3>2, History DEF Review
  <2> QED BY <2>1, <2>2
<1>6. ASSUME ~Suffered({"again"})', NEW e \in Events
      PROVE  ~(Said(e, "approved") /\ Said(e, "needs_info"))'
  <2>1. ~Suffered({"again"}) /\ ~Fault("again")
    BY <1>6, FaultsStay, FaultCounted DEF TypeInv, Suffered, AllFaultKinds
  <2>2. ~(Said(e, "approved") /\ Said(e, "needs_info"))
    BY <2>1 DEF SentInv
  <2>3. ASSUME NEW x \in Events, NEW verdict \in Verdicts, Review(x, verdict)
        PROVE  ~(Said(e, "approved") /\ Said(e, "needs_info"))'
    <3>1. /\ ~(\E other \in Verdicts : Said(x, other))
          /\ verdicts' = verdicts \cup {<<x, verdict>>}
      BY <2>1, <2>3 DEF Review
    <3> QED BY <2>2, <3>1 DEF Said, Verdicts
  <2> QED BY <2>2, <2>3, Sendings DEF Acts, Resubmit, Pay, people, Said
<1>7. ASSUME NEW e \in paid' PROVE (HasRoute(e, {"auto_approve"}) \/ Said(e, "approved"))'
  <2>1. CASE e \in paid
    BY <2>1, History DEF SentInv
  <2>2. CASE e \notin paid
    BY <1>7, <2>2, Sendings, History DEF Acts, Review, Resubmit, Pay, people
  <2> QED BY <2>1, <2>2
<1>8. ASSUME NEW e \in Events \ unsent', NEW x \in Events, Before(x, e)
      PROVE  Said(x, "needs_info")'
  <2>1. CASE e \notin unsent
    BY <1>8, <2>1, History DEF SentInv
  <2>2. CASE e \in unsent
    <3>1. Resubmit(e)
      BY <1>8, <2>2, Sendings DEF Acts, Review, Resubmit, Pay, broker
    <3>2. PICK y \in Events : /\ Payload[y].invoice = Payload[e].invoice
                              /\ Payload[y].round = Payload[e].round - 1
                              /\ Said(y, "needs_info")
      BY <3>1 DEF Resubmit
    <3>3. \A z \in {e, x, y} : Payload[z].round \in Nat
      BY DecisionAssumption DEF PayloadType
    <3>4. Before(x, y) \/ (/\ Payload[x].invoice = Payload[y].invoice
                           /\ Payload[x].round = Payload[y].round)
      BY <1>8, <3>2, <3>3 DEF Before
    <3>5. y \in Events \ unsent
      BY <3>2 DEF SentInv, Verdicts, HasRoute, IsPublished
    <3>6. Said(x, "needs_info")
      BY <3>2, <3>4, <3>5 DEF SentInv, OneEventPerRound
    <3> QED BY <3>6, History
  <2> QED BY <2>1, <2>2
<1> QED BY <1>2, <1>3, <1>4, <1>5, <1>6, <1>7, <1>8 DEF SentInv, Before

LEMMA SentInit == Init => SentInv
<1> SUFFICES ASSUME Init PROVE SentInv
  OBVIOUS
<1>1. \A m \in unacked : Vouched(m)
  BY DEF Init, Vouched
<1>2. \A e \in Events \ unsent, x \in Events : ~Before(x, e)
  <2>1. \A e \in Events : Payload[e].round \in Nat \ {0}
    BY DecisionAssumption DEF PayloadType
  <2> QED BY <2>1 DEF Init, Before
<1>3. paid = {} /\ verdicts = {} /\ published = {} /\ \A h \in Handlers : pc[h] = "idle"
  BY DEF Init
<1> QED BY <1>1, <1>2, <1>3 DEF SentInv, IsPublished, Said

\* What is paid was not sent back, so that it is the latest submission of its invoice,
\* unless there were two decisions or two verdicts on it.
LEMMA PaidIsLatest ==
  ASSUME OnceInv, SentInv, ~Suffered({"again"}), NEW e \in paid, e \in Events
  PROVE  IsPublished(e) /\ Latest(e)
<1>1. IsPublished(e)
  BY DEF SentInv, HasRoute, IsPublished, Verdicts
<1>2. ~Said(e, "needs_info")
  <2>1. CASE HasRoute(e, {"auto_approve"})
    <3>1. ~HasRoute(e, {"human_review"})
      BY <2>1 DEF OnceInv, HasRoute
    <3> QED BY <3>1 DEF SentInv, Verdicts
  <2>2. CASE Said(e, "approved")
    BY <2>2 DEF SentInv
  <2> QED BY <2>1, <2>2 DEF SentInv
<1>3. \A x \in Events : Payload[x].round \in Nat
  BY DecisionAssumption DEF PayloadType
<1>4. \A x \in Events \ unsent : ~Before(e, x)
  BY <1>2 DEF SentInv
<1> QED BY <1>1, <1>3, <1>4 DEF Latest, Before

PaidBuckets == {Bucket(e) : e \in paid}

TrustInv ==
  /\ \A h \in Handlers : pc[h] = "publish" => remembered[Subject(h)] = Bucket(Event(h))
  /\ \A e \in Events : IsPublished(e) /\ Latest(e) => remembered[Payload[e].invoice] = Bucket(e)
  /\ \A h \in Handlers : pc[h] = "credit" => work[h].bucket \in PaidBuckets
  /\ trust \subseteq PaidBuckets

\* A submission that is being decided is the latest of its invoice; no other handler
\* decides one of that invoice, and the latest one is not decided yet.
LEMMA Sole ==
  ASSUME TypeInv, AloneInv, OnceInv, SentInv, OneEventPerRound,
         NEW h \in Handlers, pc[h] \in SubmissionPcs
  PROVE  /\ \A g \in Handlers : pc[g] \in SubmissionPcs /\ Subject(g) = Subject(h) => g = h
         /\ \A x \in Events : IsPublished(x) /\ Latest(x) => Payload[x].invoice # Subject(h)
<1>1. \A e \in Events : Payload[e].round \in Nat
  BY DecisionAssumption DEF PayloadType
<1>2. ASSUME NEW g \in Handlers, pc[g] \in SubmissionPcs
      PROVE  /\ Past(g) /\ work[g].msg = Submission(Event(g))
             /\ Event(g) \in Events \ unsent /\ ~IsPublished(Event(g)) /\ Latest(Event(g))
  <2>1. Past(g) /\ work[g].msg = Submission(Event(g)) /\ Event(g) \in Events
    BY <1>2, SubmissionHeld DEF Past, BodyPcs, SubmissionPcs, Submission
  <2>2. ~IsPublished(Event(g)) /\ Event(g) \notin unsent
    BY <1>2, <2>1 DEF OnceInv, SentInv, Vouched, Submission, SubmissionPcs
  <2>3. ~Said(Event(g), "needs_info")
    BY <2>1, <2>2 DEF SentInv, HasRoute, IsPublished, Verdicts
  <2>4. Latest(Event(g))
    BY <1>1, <2>1, <2>2, <2>3 DEF Latest, SentInv, Before
  <2> QED BY <2>1, <2>2, <2>4
<1>3. ASSUME NEW e \in Events \ unsent, NEW x \in Events \ unsent, Latest(e), Latest(x),
             Payload[e].invoice = Payload[x].invoice
      PROVE  e = x
  BY <1>1, <1>3 DEF Latest, OneEventPerRound
<1>4. ASSUME NEW g \in Handlers, pc[g] \in SubmissionPcs, Subject(g) = Subject(h) PROVE g = h
  BY <1>2, <1>3, <1>4 DEF Subject, AloneInv
<1>5. ASSUME NEW x \in Events, IsPublished(x), Latest(x) PROVE Payload[x].invoice # Subject(h)
  BY <1>2, <1>3, <1>5 DEF Subject, SentInv
<1> QED BY <1>4, <1>5

\* How a handler comes to publish, or to credit.
LEMMA Entrances ==
  ASSUME TypeInv, [Next]_vars, NEW h \in Handlers
  PROVE  /\ pc'[h] = "publish" => Stays(h) \/ Remember(h)
         /\ pc'[h] = "credit" => Stays(h) \/ Recall(h)
<1>1. ASSUME NEW m \in unacked, Deliver(h, m) PROVE pc'[h] = "first_time"
  BY <1>1, DeliverMoves DEF Moves
<1>2. FirstTime(h) => pc'[h] \in {"ack", "register", "recall"}
  BY FirstTimeMoves DEF Moves
<1>3. Register(h) \/ ReadOwner(h) => pc'[h] \in {"read_thresholds", "read_owner"}
  BY RegisterMoves, ReadOwnerMoves DEF Moves
<1>4. ReadThresholds(h) \/ WriteDefaults(h) => pc'[h] \in {"is_trusted", "write_defaults"}
  BY ReadThresholdsMoves, PlainMoves DEF WriteDefaults, Moves
<1>5. IsTrusted(h) => pc'[h] = "remember"
  BY IsTrustedMoves DEF Moves
<1>6. Publish(h) \/ Credit(h) => pc'[h] = "ack"
  BY PlainMoves DEF Publish, Credit, Moves
<1>7. Remember(h) => pc'[h] = "publish"
  BY PlainMoves DEF Remember, Moves
<1>8. Recall(h) => pc'[h] \in {"ack", "credit"}
  BY RecallMoves DEF Moves
<1>9. Raise(h) \/ PublishIsLost(h) => pc'[h] = "forget"
  BY PlainMoves DEF Raise, PublishIsLost, BodyPcs, Moves
<1>10. Ack(h) \/ Forget(h) \/ RaiseInFirstTime(h) \/ ForgetFails(h) => pc'[h] = "idle"
  BY Left DEF Ack, Forget, RaiseInFirstTime, ForgetFails, Moves
<1>11. Crash => pc'[h] = "idle"
  BY DEF Crash
<1> QED
  BY WhoMoves, <1>1, <1>2, <1>3, <1>4, <1>5, <1>6, <1>7, <1>8, <1>9, <1>10, <1>11 DEF Step

\* What is remembered and trusted changes in two actions.
LEMMA Memories ==
  ASSUME [Next]_vars
  PROVE  /\ UNCHANGED remembered \/ \E h \in Handlers : Remember(h)
         /\ UNCHANGED trust \/ \E h \in Handlers : Credit(h)
BY DEF Next, vars, people, stores, Step, Deliver, FirstTime, Register, ReadOwner, ReadThresholds,
       WriteDefaults, IsTrusted, Publish, Recall, Ack, Forget, Tune, Review, Resubmit, Pay, Raise,
       PublishIsLost, RaiseInFirstTime, ForgetFails, Crash, Remember, Credit

LEMMA TrustStep ==
  ASSUME TypeInv, AloneInv, OnceInv, SentInv, TrustInv, OneEventPerRound, [Next]_vars,
         ~Suffered({"lost", "again"})'
  PROVE  TrustInv'
<1>1. ASSUME NEW g \in Handlers, Remember(g)
      PROVE  /\ pc[g] = "remember" /\ UNCHANGED work
             /\ remembered'[Subject(g)] = Bucket(Event(g))
             /\ \A i \in Invoices \ {Subject(g)} : remembered'[i] = remembered[i]
  <2>1. pc[g] = "remember" /\ Subject(g) \in Invoices
    BY <1>1, SubmissionHeld DEF Remember, SubmissionPcs
  <2> QED BY <1>1, <2>1 DEF Remember, TypeInv, TypeOK
<1>2. ASSUME NEW h \in Handlers, pc'[h] = "publish"
      PROVE  remembered'[Subject(h)'] = Bucket(Event(h)')
  <2>1. work'[h].msg = work[h].msg
    BY <1>1, <1>2, Entrances DEF Stays
  <2>2. Event(h)' = Event(h) /\ Subject(h)' = Subject(h) /\ Bucket(Event(h)') = Bucket(Event(h))
    BY <2>1 DEF Event, Subject
  <2>3. CASE Remember(h)
    BY <1>1, <2>2, <2>3
  <2>4. CASE Stays(h)
    <3>1. pc[h] = "publish" /\ remembered[Subject(h)] = Bucket(Event(h)) /\ Subject(h) \in Invoices
      BY <1>2, <2>4, SubmissionHeld DEF Stays, TrustInv, SubmissionPcs
    <3>2. ASSUME NEW g \in Handlers, Remember(g)
          PROVE  remembered'[Subject(h)] = remembered[Subject(h)]
      <4>1. pc[g] = "remember"
        BY <1>1, <3>2
      <4>2. Subject(h) # Subject(g)
        BY <3>1, <4>1, Sole DEF SubmissionPcs
      <4> QED BY <1>1, <3>1, <3>2, <4>2
    <3> QED BY <2>2, <3>1, <3>2, Memories
  <2> QED BY <1>2, <2>3, <2>4, Entrances
<1>3. ASSUME NEW e \in Events, IsPublished(e)', Latest(e)'
      PROVE  remembered'[Payload[e].invoice] = Bucket(e)
  <2>1. Latest(e) /\ Payload[e].invoice \in Invoices
    BY <1>3, History, DecisionAssumption DEF Latest, PayloadType
  <2>2. CASE IsPublished(e)
    <3>1. remembered[Payload[e].invoice] = Bucket(e)
      BY <2>1, <2>2 DEF TrustInv
    <3>2. ASSUME NEW g \in Handlers, Remember(g)
          PROVE  remembered'[Payload[e].invoice] = remembered[Payload[e].invoice]
      <4>1. pc[g] = "remember"
        BY <1>1, <3>2
      <4>2. Payload[e].invoice # Subject(g)
        BY <2>1, <2>2, <4>1, Sole DEF SubmissionPcs
      <4> QED BY <1>1, <2>1, <3>2, <4>2
    <3> QED BY <3>1, <3>2, Memories
  <2>3. CASE ~IsPublished(e)
    <3>1. PICK h \in Handlers : (Publish(h) \/ PublishIsLost(h)) /\ e = Event(h)
      BY <1>3, <2>3, Publications DEF IsPublished
    <3>2. ~PublishIsLost(h)
      BY FaultCounted DEF PublishIsLost, Suffered, TypeInv
    <3>3. pc[h] = "publish" /\ UNCHANGED remembered
      BY <3>1, <3>2 DEF Publish, stores
    <3> QED BY <3>1, <3>3 DEF TrustInv, Subject
  <2> QED BY <2>2, <2>3
<1>4. PaidBuckets \subseteq PaidBuckets'
  BY History DEF PaidBuckets
<1>5. ASSUME NEW h \in Handlers, pc'[h] = "credit" PROVE work'[h].bucket \in PaidBuckets'
  <2>1. CASE Stays(h)
    BY <1>4, <1>5, <2>1 DEF Stays, TrustInv
  <2>2. CASE Recall(h)
    <3>1. PICK bucket \in {remembered[Event(h)], None} :
            Moves(h, IF bucket = None THEN "ack" ELSE "credit",
                  [work[h] EXCEPT !.bucket = bucket])
      BY <2>2, RecallMoves
    <3>2. bucket = remembered[Event(h)] /\ work'[h].bucket = bucket
      BY <1>5, <3>1, Held DEF Moves, Work
    <3>3. pc[h] = "recall" /\ work[h].msg = <<"payment-completed", Event(h)>>
      BY <2>2, PaymentHeld DEF Recall
    <3>4. Event(h) \in PaidInvoices
      BY <3>3 DEF SentInv, Vouched
    <3>5. PICK e \in paid : Payload[e].invoice = Event(h)
      BY <3>4 DEF PaidInvoices
    <3>6. e \in Events /\ ~Suffered({"again"})
      BY FaultsStay DEF TypeInv, TypeOK, Suffered, AllFaultKinds
    <3>7. bucket = Bucket(e)
      BY <3>2, <3>5, <3>6, PaidIsLatest DEF TrustInv
    <3> QED BY <1>4, <3>2, <3>7 DEF PaidBuckets
  <2> QED BY <1>5, <2>1, <2>2, Entrances
<1>6. trust' \subseteq PaidBuckets'
  <2>1. ASSUME NEW h \in Handlers, Credit(h) PROVE trust' \subseteq PaidBuckets
    BY <2>1 DEF Credit, TrustInv
  <2> QED BY <1>4, <2>1, Memories DEF TrustInv
<1> QED BY <1>2, <1>3, <1>5, <1>6 DEF TrustInv, Subject

\* Trust is only of vendors and categories whose payment completed, unless the broker took
\* a decision or a verdict whose publish raised (that is the hypothesis of TrustIsEarned;
\* trust.py:1-9, subscriptions.py:103-137), when every resubmission of an invoice opens a
\* round of its own (as it does if no two PUTs for it overlap).
THEOREM TrustOfThePaid ==
  ASSUME OneEventPerRound
  PROVE  Spec => []TrustIsEarned
<1> DEFINE EarnedInv == ~Suffered({"lost", "again"}) => TrustInv
<1>1. TypeInv /\ SentInv /\ [Next]_vars => SentInv'
  BY SentStep
<1>2. Spec => []SentInv
  BY <1>1, SentInit, TypeInvariant, PTL DEF Spec
<1>3. Init => EarnedInv
  BY DEF Init, TrustInv, IsPublished
<1>4. TypeInv /\ AloneInv /\ LostInv /\ SentInv /\ EarnedInv /\ [Next]_vars => EarnedInv'
  <2>1. TypeInv /\ [Next]_vars /\ ~Suffered({"lost", "again"})' => ~Suffered({"lost", "again"})
    BY FaultsStay DEF TypeInv, Suffered, AllFaultKinds
  <2>2. ~Suffered({"lost", "again"}) => ~Suffered({"lost"})
    BY DEF Suffered
  <2> QED BY <2>1, <2>2, TrustStep DEF LostInv
<1>5. EarnedInv => TrustIsEarned
  BY DEF TrustInv, TrustIsEarned, PaidBuckets
<1> HIDE DEF EarnedInv
<1> QED BY <1>2, <1>3, <1>4, <1>5, OnceInvariant, PTL DEF Spec

==================================================================================

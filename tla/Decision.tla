--------------------------------- MODULE Decision --------------------------------
(***************************************************************************)
(* The decision service: the subscriber that runs every submission through *)
(* the fingerprint registry, the thresholds, the trust history, the agent  *)
(* and the router and publishes the route; the subscriber that credits     *)
(* trust when a payment completes; and the endpoint that tunes thresholds. *)
(*                                                                         *)
(* One action is one awaited call.  A compare-and-swap on one key is one   *)
(* action (CasStore shows that it is atomic).  The agent answers anything. *)
(* Of the services around it (intake, approval, payment) the module has    *)
(* what decides which submissions and payments there are.                  *)
(***************************************************************************)
EXTENDS Router, FiniteSetsExt

CONSTANTS
  Handlers,         \* concurrent activations of the two subscribers
  Events,           \* invoice-submitted events
  Payload,          \* what each event says: see PayloadType
  Invoices,
  Vendors,
  Lower,            \* the lower-cased name of a vendor
  Recommendations,  \* what the agent may answer, None among it
  Tuned,            \* the ceilings an administrator sets
  MaxTunings,       \* bound on the number of times
  FaultKinds,       \* which faults may happen: see AllFaultKinds
  MaxFaults         \* bound on the number of faults, see CountedWith

\* number is the vendor's invoice number; the first submission of an invoice is
\* round 1, a resubmission after a send-back is a later round.
PayloadType == [invoice : Invoices, round : Nat \ {0}, vendor : Vendors, number : Nat,
                data : Invoice]

\* call: a call raises before it has an effect; lost: the publish raises after
\* the broker took the event; miss: a read of a key that exists finds nothing;
\* twice: a message is delivered while it is being handled; again: an approver
\* gives another verdict, see Review; mark, forget, crash: see the actions.
AllFaultKinds == {"call", "lost", "miss", "twice", "again", "mark", "forget", "crash"}

ASSUME DecisionAssumption ==
  /\ Lower \in [Vendors -> Vendors]
  /\ MaxTunings \in Nat /\ MaxFaults \in Nat
  /\ Tuned \subseteq Nat
  /\ FaultKinds \subseteq AllFaultKinds
  /\ Payload \in [Events -> PayloadType]
  /\ None \notin Invoices \cup Thresholds

\* fingerprint_of: vendor as it is spelled, invoice number and total.
Fingerprint(e) == <<Payload[e].vendor, Payload[e].number, Payload[e].data.total>>

\* _trust_key: vendor, lower-cased, and category.
Bucket(e) == <<Lower[Payload[e].vendor], Payload[e].data.category>>

Fingerprints == {Fingerprint(e) : e \in Events}
Buckets      == {Bucket(e) : e \in Events}

\* What an approver may say of a submission.  (Who rejects it ends it.)
Verdicts == {"approved", "needs_info"}

\* What the broker carries here.
Messages == ({"invoice-submitted"} \X Events) \cup ({"payment-completed"} \X Invoices)

VARIABLES
  unsent,      \* events that do not exist yet
  unacked,     \* messages the broker still has to deliver (again)
  processed,   \* dedupe marks, processed:{event_id}
  owner,       \* fp:{fingerprint}, the invoice that registered it
  thresholds,  \* config:thresholds, None if absent
  trust,       \* trust:{vendor}|{category}, the buckets credited
  remembered,  \* trust:invoice:{invoice_id}, the bucket of an invoice
  published,   \* decision-made events sent
  pc,          \* the next call of every handler
  work,        \* what each handler holds
  verdicts,    \* what approvers said of which submission
  paid,        \* history: the events whose invoice was paid as they said
  tunings,     \* thresholds tuned so far
  faults       \* faults so far, by kind

stores == <<processed, owner, thresholds, trust, remembered>>
broker == <<unsent, unacked>>
people == <<verdicts, paid>>
vars   == <<broker, stores, published, pc, work, people, tunings, faults>>

Decided == [event : Events, route : {"auto_approve", "human_review", "reject", "duplicate"},
            ceiling : Nat]

Work == [msg : Messages \cup {None}, duplicate : BOOLEAN, thresholds : Thresholds \cup {None},
         trusted : BOOLEAN, bucket : Buckets \cup {None}]

NoWork == [msg |-> None, duplicate |-> FALSE, thresholds |-> None, trusted |-> FALSE,
           bucket |-> None]

BodyPcs == {"register", "read_owner", "read_thresholds", "write_defaults", "is_trusted",
            "remember", "publish", "recall", "credit"}

TypeOK ==
  /\ unsent \subseteq Events /\ unacked \subseteq Messages /\ processed \subseteq Messages
  /\ owner \in [Fingerprints -> Invoices \cup {None}]
  /\ thresholds \in Thresholds \cup {None}
  /\ trust \subseteq Buckets
  /\ remembered \in [Invoices -> Buckets \cup {None}]
  /\ published \subseteq Decided
  /\ pc \in [Handlers -> {"idle", "first_time", "ack", "forget"} \cup BodyPcs]
  /\ work \in [Handlers -> Work]
  /\ \A h \in Handlers : pc[h] = "publish" => work[h].thresholds # None
  /\ verdicts \subseteq Events \X Verdicts /\ paid \subseteq Events
  /\ tunings \in 0 .. MaxTunings /\ faults \in [AllFaultKinds -> 0 .. MaxFaults]

Init ==
  /\ unsent     = {e \in Events : Payload[e].round > 1}
  /\ unacked    = {"invoice-submitted"} \X (Events \ unsent)
  /\ processed  = {}
  /\ owner      = [f \in Fingerprints |-> None]
  /\ thresholds = None
  /\ trust      = {}
  /\ remembered = [i \in Invoices |-> None]
  /\ published  = {}
  /\ pc         = [h \in Handlers |-> "idle"]
  /\ work       = [h \in Handlers |-> NoWork]
  /\ verdicts   = {} /\ paid = {}
  /\ tunings    = 0
  /\ faults     = [kind \in AllFaultKinds |-> 0]

Goto(h, next) == pc' = [pc EXCEPT ![h] = next]

\* A forget() only fails on the way back from another fault and is counted apart.
CountedWith(kind) == IF kind = "forget" THEN {kind} ELSE AllFaultKinds \ {"forget"}

Fault(kind) ==
  /\ kind \in FaultKinds
  /\ MapThenSumSet(LAMBDA k : faults[k], CountedWith(kind)) < MaxFaults
  /\ faults' = [faults EXCEPT ![kind] = @ + 1]

\* A fault of one of the kinds happened.
Suffered(kinds) == \E kind \in kinds : faults[kind] > 0

\* A get of a key that holds stored returns value.
Finds(stored, value) ==
  \/ value = stored /\ UNCHANGED faults
  \/ value = None /\ stored # None /\ Fault("miss")

--------------------------------------------------------------------------------
\* The subscribers' shell.

Topic(h)   == work[h].msg[1]
Event(h)   == work[h].msg[2]
Subject(h) == Payload[Event(h)].invoice

\* The handler leaves, whatever it answered.
Leave(h) ==
  /\ Goto(h, "idle")
  /\ work' = [work EXCEPT ![h] = NoWork]

Deliver(h, m) ==
  /\ pc[h] = "idle"
  /\ m \in unacked
  /\ IF \E g \in Handlers : work[g].msg = m THEN Fault("twice") ELSE UNCHANGED faults
  /\ Goto(h, "first_time")
  /\ work' = [work EXCEPT ![h].msg = m]
  /\ UNCHANGED <<broker, stores, published, people, tunings>>

\* Mutant: the mark is looked up and not written.
FirstTimeUnmarked(h) ==
  /\ pc[h] = "first_time"
  /\ Goto(h, IF work[h].msg \in processed THEN "ack"
             ELSE IF Topic(h) = "invoice-submitted" THEN "register" ELSE "recall")
  /\ UNCHANGED <<broker, stores, published, work, people, tunings, faults>>

FirstTime(h) ==
  /\ pc[h] = "first_time"
  /\ Goto(h, IF work[h].msg \in processed THEN "ack"
             ELSE IF Topic(h) = "invoice-submitted" THEN "register" ELSE "recall")
  /\ processed' = processed \cup {work[h].msg}
  /\ UNCHANGED <<broker, owner, thresholds, trust, remembered, published, work, people,
                 tunings, faults>>

Ack(h) ==
  /\ pc[h] = "ack"
  /\ unacked' = unacked \ {work[h].msg}
  /\ Leave(h)
  /\ UNCHANGED <<unsent, stores, published, people, tunings, faults>>

\* Mutant: the handler fails without undoing its mark.
ForgetNothing(h) ==
  /\ pc[h] = "forget"
  /\ Leave(h)
  /\ UNCHANGED <<broker, stores, published, people, tunings, faults>>

\* _compensate_forget, then the error the broker answers with a redelivery.
Forget(h) ==
  /\ pc[h] = "forget"
  /\ processed' = processed \ {work[h].msg}
  /\ Leave(h)
  /\ UNCHANGED <<broker, owner, thresholds, trust, remembered, published, people, tunings,
                 faults>>

--------------------------------------------------------------------------------
\* handle_submission: the pipeline.

\* Mutant: the registration overwrites the owner it finds.
RegisterBlindly(h) ==
  LET f == Fingerprint(Event(h)) IN
  /\ pc[h] = "register"
  /\ owner' = [owner EXCEPT ![f] = Subject(h)]
  /\ Goto(h, IF owner[f] = None THEN "read_thresholds" ELSE "read_owner")
  /\ UNCHANGED <<broker, processed, thresholds, trust, remembered, published, work, people,
                 tunings, faults>>

\* Gate 1: the first submission of a fingerprint registers it.
Register(h) ==
  LET f == Fingerprint(Event(h)) IN
  /\ pc[h] = "register"
  /\ \/ /\ owner[f] = None
        /\ owner' = [owner EXCEPT ![f] = Subject(h)]
        /\ Goto(h, "read_thresholds")
     \/ /\ owner[f] # None
        /\ UNCHANGED owner
        /\ Goto(h, "read_owner")
  /\ UNCHANGED <<broker, processed, thresholds, trust, remembered, published, work, people,
                 tunings, faults>>

\* Mutant: whoever did not register is a duplicate, its own resubmission too.
IsDuplicateAlways(existing, i) == TRUE

\* A duplicate, unless the fingerprint is known to be the invoice's own.
IsDuplicate(existing, i) == existing # i

ReadOwner(h) ==
  /\ pc[h] = "read_owner"
  /\ \E existing \in {owner[Fingerprint(Event(h))], None} :
       /\ Finds(owner[Fingerprint(Event(h))], existing)
       /\ work' = [work EXCEPT ![h].duplicate = IsDuplicate(existing, Subject(h))]
  /\ Goto(h, "read_thresholds")
  /\ UNCHANGED <<broker, stores, published, people, tunings>>

\* Mutant: what is not stored is not replaced.
ReadThresholdsUnseeded(h) ==
  /\ pc[h] = "read_thresholds"
  /\ \E value \in {thresholds, None} :
       /\ Finds(thresholds, value)
       /\ work' = [work EXCEPT ![h].thresholds = value]
  /\ Goto(h, "is_trusted")
  /\ UNCHANGED <<broker, stores, published, people, tunings>>

\* get_thresholds: what is stored, or the defaults, which are then stored.
ReadThresholds(h) ==
  /\ pc[h] = "read_thresholds"
  /\ \E value \in {thresholds, None} :
       /\ Finds(thresholds, value)
       /\ \/ /\ value # None
             /\ work' = [work EXCEPT ![h].thresholds = value]
             /\ Goto(h, "is_trusted")
          \/ /\ value = None
             /\ work' = [work EXCEPT ![h].thresholds = DefaultThresholds]
             /\ Goto(h, "write_defaults")
  /\ UNCHANGED <<broker, stores, published, people, tunings>>

\* A blind write.
WriteDefaults(h) ==
  /\ pc[h] = "write_defaults"
  /\ thresholds' = DefaultThresholds
  /\ Goto(h, "is_trusted")
  /\ UNCHANGED <<broker, processed, owner, trust, remembered, published, work, people,
                 tunings, faults>>

\* The trust lookup; a bucket that cannot be read is not trusted.
IsTrusted(h) ==
  /\ pc[h] = "is_trusted"
  /\ \/ /\ work' = [work EXCEPT ![h].trusted = Bucket(Event(h)) \in trust]
        /\ UNCHANGED faults
     \/ /\ Bucket(Event(h)) \in trust
        /\ Fault("miss")
        /\ UNCHANGED work
  /\ Goto(h, "remember")
  /\ UNCHANGED <<broker, stores, published, people, tunings>>

\* Mutant: what is remembered of an invoice is never replaced.
RememberOnce(h) ==
  /\ pc[h] = "remember"
  /\ remembered' = [remembered EXCEPT ![Subject(h)] =
                      IF @ = None THEN Bucket(Event(h)) ELSE @]
  /\ Goto(h, "publish")
  /\ UNCHANGED <<broker, processed, owner, thresholds, trust, published, work, people,
                 tunings, faults>>

\* The bucket of an invoice, for the payment event, which does not carry it.
Remember(h) ==
  /\ pc[h] = "remember"
  /\ remembered' = [remembered EXCEPT ![Subject(h)] = Bucket(Event(h))]
  /\ Goto(h, "publish")
  /\ UNCHANGED <<broker, processed, owner, thresholds, trust, published, work, people,
                 tunings, faults>>

\* The agent, which a duplicate never reaches, the router and the event.  (The
\* agent shares no state with the others, so its answer is drawn here.)
Sent(h) ==
  \E agent \in IF work[h].duplicate THEN {None} ELSE Recommendations :
    LET inv == Payload[Event(h)].data IN
    published' = published \cup
      {[event   |-> Event(h),
        route   |-> Route(work[h].duplicate, agent, work[h].thresholds, work[h].trusted, inv),
        ceiling |-> EffectiveCeiling(work[h].thresholds, work[h].trusted, inv)]}

Publish(h) ==
  /\ pc[h] = "publish"
  /\ Sent(h)
  /\ Goto(h, "ack")
  /\ UNCHANGED <<broker, stores, work, people, tunings, faults>>

--------------------------------------------------------------------------------
\* record_paid_for_invoice: trust is credited once a payment completed.

Recall(h) ==
  /\ pc[h] = "recall"
  /\ \E bucket \in {remembered[Event(h)], None} :
       /\ Finds(remembered[Event(h)], bucket)
       /\ work' = [work EXCEPT ![h].bucket = bucket]
       /\ Goto(h, IF bucket = None THEN "ack" ELSE "credit")
  /\ UNCHANGED <<broker, stores, published, people, tunings>>

Credit(h) ==
  /\ pc[h] = "credit"
  /\ trust' = trust \cup {work[h].bucket}
  /\ Goto(h, "ack")
  /\ UNCHANGED <<broker, processed, owner, thresholds, remembered, published, work, people,
                 tunings, faults>>

--------------------------------------------------------------------------------
\* update_thresholds: the endpoint merges a new ceiling into what is stored.
Tune(c) ==
  /\ tunings < MaxTunings
  /\ tunings' = tunings + 1
  /\ thresholds' = [(IF thresholds = None THEN DefaultThresholds ELSE thresholds)
                      EXCEPT !.ceiling = c]
  /\ UNCHANGED <<broker, processed, owner, trust, remembered, published, pc, work, people,
                 faults>>

--------------------------------------------------------------------------------
\* The services around it.

HasRoute(e, routes) == \E d \in published : d.event = e /\ d.route \in routes

Said(e, verdict) == <<e, verdict>> \in verdicts

PaidInvoices == {Payload[e].invoice : e \in paid}

\* An approver says what becomes of what needs a human, and says something else
\* if the broker took the verdict though its publish raised.
Review(e, verdict) ==
  /\ HasRoute(e, {"human_review"})
  /\ ~Said(e, verdict)
  /\ IF \E other \in Verdicts : Said(e, other) THEN Fault("again") ELSE UNCHANGED faults
  /\ verdicts' = verdicts \cup {<<e, verdict>>}
  /\ UNCHANGED <<broker, stores, published, pc, work, paid, tunings>>

\* PUT: what was sent back is submitted again.
Resubmit(e) ==
  /\ e \in unsent
  /\ \E x \in Events : /\ Payload[x].invoice = Payload[e].invoice
                      /\ Payload[x].round = Payload[e].round - 1
                      /\ Said(x, "needs_info")
  /\ unsent'  = unsent \ {e}
  /\ unacked' = unacked \cup {<<"invoice-submitted", e>>}
  /\ UNCHANGED <<stores, published, pc, work, people, tunings, faults>>

\* What the router or a human let pass is paid, once per invoice.
Pay(e) ==
  /\ HasRoute(e, {"auto_approve"}) \/ Said(e, "approved")
  /\ Payload[e].invoice \notin PaidInvoices
  /\ paid' = paid \cup {e}
  /\ unacked' = unacked \cup {<<"payment-completed", Payload[e].invoice>>}
  /\ UNCHANGED <<unsent, stores, published, pc, work, verdicts, tunings, faults>>

--------------------------------------------------------------------------------
\* Faults.

Raise(h) ==
  /\ pc[h] \in BodyPcs
  /\ Fault("call")
  /\ Goto(h, "forget")
  /\ UNCHANGED <<broker, stores, published, work, people, tunings>>

\* The broker took the event and the publish raised.
PublishIsLost(h) ==
  /\ pc[h] = "publish"
  /\ Fault("lost")
  /\ Sent(h)
  /\ Goto(h, "forget")
  /\ UNCHANGED <<broker, stores, work, people, tunings>>

\* first_time() itself raises, outside the try block.
RaiseInFirstTime(h) ==
  /\ pc[h] = "first_time"
  /\ Fault("mark")
  /\ processed' \in {processed, processed \cup {work[h].msg}}
  /\ Leave(h)
  /\ UNCHANGED <<broker, owner, thresholds, trust, remembered, published, people, tunings>>

\* forget() raises too, is logged, and the mark persists.
ForgetFails(h) ==
  /\ pc[h] = "forget"
  /\ Fault("forget")
  /\ Leave(h)
  /\ UNCHANGED <<broker, stores, published, people, tunings>>

\* The process dies: every handler vanishes, the stores and the broker stay.
Crash ==
  /\ \E h \in Handlers : pc[h] # "idle"
  /\ Fault("crash")
  /\ pc'   = [h \in Handlers |-> "idle"]
  /\ work' = [h \in Handlers |-> NoWork]
  /\ UNCHANGED <<broker, stores, published, people, tunings>>

--------------------------------------------------------------------------------
Step(h) ==
  \/ FirstTime(h) \/ Register(h) \/ ReadOwner(h) \/ ReadThresholds(h) \/ WriteDefaults(h)
  \/ IsTrusted(h) \/ Remember(h) \/ Publish(h) \/ Recall(h) \/ Credit(h)
  \/ Ack(h) \/ Forget(h)

Next ==
  \/ \E h \in Handlers : \E m \in unacked : Deliver(h, m)
  \/ \E h \in Handlers : Step(h)
  \/ \E c \in Tuned : Tune(c)
  \/ \E e \in Events : (\E verdict \in Verdicts : Review(e, verdict)) \/ Resubmit(e) \/ Pay(e)
  \/ \E h \in Handlers : Raise(h) \/ PublishIsLost(h) \/ RaiseInFirstTime(h) \/ ForgetFails(h)
  \/ Crash

Spec == Init /\ [][Next]_vars

\* The event loop runs every handler, and the broker redelivers what is not
\* acknowledged as long as a worker is free.
FairSpec ==
  /\ Spec
  /\ \A h \in Handlers : WF_vars(Step(h))
  /\ \A m \in Messages : WF_vars(\E h \in Handlers : Deliver(h, m))

--------------------------------------------------------------------------------
\* Properties.

\* One invoice at most is decided on its merits among those that share vendor,
\* number and total: a submission is never paid twice, however the submissions
\* race, fail and are delivered again (pipeline.py:7-12).
OneOwner ==
  \A d1, d2 \in published :
    (/\ Fingerprint(d1.event) = Fingerprint(d2.event)
     /\ d1.route # "duplicate"
     /\ d2.route # "duplicate") => Payload[d1.event].invoice = Payload[d2.event].invoice

\* Somebody is: an invoice is called a duplicate only of another one, never of
\* itself (fingerprint.py:57-64).  (A registry that does not find a key it holds
\* is the exception: fingerprint.py:77-88 then says duplicate.)
DuplicateOfAnother ==
  ~Suffered({"miss"}) =>
    \A d \in published : d.route = "duplicate" =>
      owner[Fingerprint(d.event)] \notin {None, Payload[d.event].invoice}

\* Trust is earned by a payment that really completed for that vendor and
\* category, and by nothing on a submission (trust.py:1-9).  (Two exceptions: a
\* submission whose publish raised after the broker took it is remembered again,
\* later than the resubmission that replaced it; and after two verdicts the
\* earlier submission is paid while the later one is remembered.)
TrustIsEarned ==
  ~Suffered({"lost", "again"}) => trust \subseteq {Bucket(e) : e \in paid}

\* A submission is decided once, or the copies agree: the route does not depend
\* on how often the event was delivered.  (A publish that was taken and raised is
\* done again, with thresholds, trust and an agent that may have changed.)
OneRoute ==
  ~Suffered({"lost"}) => \A d1, d2 \in published : d1.event = d2.event => d1 = d2

\* Every submission is decided, whichever calls raise on the way: forget and
\* redelivery bring it back (dedupe.py:36-49).  (A mark that outlives its handler
\* makes the redelivery a duplicate: subscriptions.py:29-36; so does the mark of a
\* delivery that is in flight and raises later.)
EventuallyDecided ==
  []~Suffered({"mark", "forget", "crash", "twice"}) =>
    \A e \in Events : (<<"invoice-submitted", e>> \in unacked)
                        ~> (\E d \in published : d.event = e)
================================================================================

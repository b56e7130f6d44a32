------------------------------ MODULE RoutingProofs ------------------------------
(***************************************************************************)
(* The properties of Routing, for every invoice, exchange rate, setting of *)
(* the thresholds, recommendation and failure of the provider.             *)
(***************************************************************************)
EXTENDS Routing, TLAPS, FiniteSetTheorems

\* What the router was asked is well formed, its answer is the computed one, and
\* a recommendation on a text is the one of the stub.
Asked ==
  /\ inv \in Invoice /\ t \in Thresholds /\ trusted \in BOOLEAN
  /\ agent \in AgentRecommendation \cup {None}
  /\ route \in {None, Route(duplicate, agent, t, trusted, inv)}
  /\ route = None => text = None
  /\ text # None => text \in Text /\ agent = Stub(inv, text)

\* An amount is a natural number of cents, in whatever currency it came.
LEMMA UsdCentsType ==
  ASSUME NEW i \in Invoice
  PROVE  UsdCents(i) \in Nat
<1>1. Amount(i) \in Nat
  BY DEF Amount, Invoice
<1>2. CASE IsForeign(i)
  <2>1. Rate[i.currency] \in Nat
    BY <1>2, RouterAssumption DEF IsForeign
  <2>2. \A a, r \in Nat : 2 * a * r + 100 \in Nat
    OBVIOUS
  <2>3. \A n \in Nat : n \div 200 \in Nat
    OBVIOUS
  <2>4. Converted(Amount(i), Rate[i.currency]) \in Nat
    BY <1>1, <2>1, <2>2, <2>3 DEF Converted
  <2> QED BY <1>2, <2>4 DEF UsdCents
<1>3. CASE ~IsForeign(i)
  BY <1>1, <1>3 DEF UsdCents
<1> QED BY <1>2, <1>3

\* A meals cap is a natural number of cents.
LEMMA MealsCapType ==
  ASSUME NEW i \in Invoice, NEW s \in Thresholds
  PROVE  i.attendees * s.meals_cap \in Nat
<1>1. i.attendees \in Nat /\ s.meals_cap \in Nat
  BY DEF Invoice, Thresholds
<1>2. \A a, b \in Nat : a * b \in Nat
  OBVIOUS
<1> QED BY <1>1, <1>2

\* What an automatic approval says of its inputs.
LEMMA Approval ==
  ASSUME NEW d, NEW a, NEW s, NEW u, NEW i,
         Route(d, a, s, u, i) = "auto_approve"
  PROVE  ~d /\ a # None /\ "MEAL-03" \notin a.policy_violations /\ ~Escalates(a, s, u, i)
BY DEF Route

\* An invoice without hard stops passes every test of Gate 2.
LEMMA NoHardStops ==
  ASSUME NEW s, NEW i, HardStops(i, s) = {}
  PROVE  /\ Sound(i)
         /\ ~(i.category = "meals" /\ i.attendees = 0)
<1> DEFINE usd == UsdCents(i)
<1>1. \A n, b : Stop(n, b) = {} => ~b
  BY DEF Stop
<1>2. /\ Stop("GLOBAL-MALFORMED", ~Parses(i)) = {}
      /\ Stop("GLOBAL-FX", IF IsForeign(i) THEN usd > MaxForeign \/ usd > s.ceiling
                           ELSE i.currency # "USD") = {}
      /\ Stop("GLOBAL-MATH", ~i.adds_up) = {}
      /\ Stop("GLOBAL-RECEIPT", usd > NoReceiptUpTo /\ ~i.receipt) = {}
      /\ Stop("GLOBAL-VENDOR", ~i.vendor_known) = {}
      /\ Stop("MEAL-01", i.category = "meals" /\ i.attendees = 0) = {}
  BY DEF HardStops
<1>3. Parses(i)
  BY <1>1, <1>2
<1>4. i.currency = "USD" \/ IsForeign(i)
  BY <1>1, <1>2
<1>5. i.adds_up /\ i.vendor_known /\ (usd > NoReceiptUpTo => i.receipt)
  BY <1>1, <1>2
<1>6. ~(i.category = "meals" /\ i.attendees = 0)
  BY <1>1, <1>2
<1> QED BY <1>3, <1>4, <1>5, <1>6 DEF Sound, Parses

\* The stub answers with a recommendation.
LEMMA StubType ==
  ASSUME NEW i, NEW text_ \in Text
  PROVE  Stub(i, text_) \in AgentRecommendation
<1>1. Confidence(i, text_) \in Nat
  BY DEF Confidence
<1>2. Violations(i, text_) \in SUBSET Rules
  BY DEF Violations, Violation, Rules
<1>3. (IF LooksLikeFraud(i, text_) THEN {"GLOBAL-FRAUD"} ELSE {}) \in SUBSET Rules
  BY DEF Rules
<1> QED BY <1>1, <1>2, <1>3 DEF Stub, AgentRecommendation

\* Every call ends with a route.
LEMMA RouteType ==
  ASSUME NEW d, NEW a, NEW s, NEW u, NEW i
  PROVE  Route(d, a, s, u, i) # None
BY RoutingAssumption DEF Route, Routes

\* The router answers as computed, on what it was asked.
LEMMA AskedInvariant == Spec => []Asked
<1>1. Init => Asked
  BY RoutingAssumption DEF Init, Asked
<1>2. Asked /\ [Next]_vars => Asked'
  <2> SUFFICES ASSUME Asked, [Next]_vars PROVE Asked'
    OBVIOUS
  <2>1. ASSUME NEW a \in AgentRecommendation \cup {None}, RouteInvoice(a), route = None,
               UNCHANGED text
        PROVE  Asked'
    BY <2>1, RouteType DEF Asked, RouteInvoice, question
  <2>2. ASSUME NEW n, route = None, Continue(n), UNCHANGED text PROVE Asked'
    <3>1. CASE RouteInvoice(None)
      BY <2>1, <2>2, <3>1
    <3>2. CASE UNCHANGED <<question, agent, route>>
      BY <2>2, <3>2 DEF Asked, question
    <3> QED BY <2>2, <3>1, <3>2 DEF Continue
  <2>3. CASE Skip
    BY <2>1, <2>3 DEF Skip
  <2>4. CASE AskStub
    <3>1. text' \in Text /\ RouteInvoice(Stub(inv, text')) /\ route = None
      BY <2>4 DEF AskStub
    <3>2. Stub(inv, text') \in AgentRecommendation
      BY <3>1, StubType
    <3>3. route' # None
      BY <3>1, RouteType DEF RouteInvoice
    <3> QED BY <3>1, <3>2, <3>3 DEF Asked, RouteInvoice, question
  <2>5. CASE Recommended
    BY <2>1, <2>5, RoutingAssumption DEF Recommended, Hear
  <2>6. CASE Retryable
    BY <2>2, <2>6 DEF Retryable, Hear
  <2>7. CASE Unusable
    BY <2>1, <2>2, <2>7 DEF Unusable, Hear
  <2>8. CASE Fatal
    BY <2>1, <2>8 DEF Fatal, Hear
  <2>9. CASE UNCHANGED vars
    BY <2>9 DEF Asked, vars, question
  <2> QED BY <2>3, <2>4, <2>5, <2>6, <2>7, <2>8, <2>9 DEF Next
<1> QED BY <1>1, <1>2, PTL DEF Spec

\* Whatever the agent answers, what is approved without a human is within the
\* ceiling and the cap of its category and holds up under Gate 2.
THEOREM AutonomyBounded == Spec => []AutonomyIsBounded
<1>1. Asked => AutonomyIsBounded
  <2> SUFFICES ASSUME Asked, route = "auto_approve"
               PROVE  WithinLimits(t, trusted, inv) /\ Sound(inv)
    BY DEF AutonomyIsBounded
  <2>1. Route(duplicate, agent, t, trusted, inv) = "auto_approve"
    BY RoutingAssumption DEF Asked, Routes
  <2>2. ~Escalates(agent, t, trusted, inv)
    BY <2>1, Approval
  <2>3. HardStops(inv, t) = {} /\ ~(UsdCents(inv) > EffectiveCeiling(t, trusted, inv))
    BY <2>2 DEF Escalates
  <2>4. Sound(inv) /\ ~(inv.category = "meals" /\ inv.attendees = 0)
    BY <2>3, NoHardStops
  <2>5. UsdCents(inv) \in Nat /\ inv.attendees * t.meals_cap \in Nat
    BY UsdCentsType, MealsCapType DEF Asked
  <2>6. inv.category = "meals" => inv.attendees >= 1
    BY <2>4 DEF Asked, Invoice
  <2>7. WithinLimits(t, trusted, inv)
    BY <2>3, <2>5, <2>6 DEF WithinLimits, EffectiveCeiling, Capped, Asked, Thresholds
  <2> QED BY <2>4, <2>7
<1> QED BY <1>1, AskedInvariant, PTL

\* Testing the router against the agent that approves of everything is enough:
\* no other one gets an invoice approved that it does not.
THEOREM ApprovingAgentIsWorst == Spec => []ApprovingIsWorst
<1>1. Asked => ApprovingIsWorst
  <2> SUFFICES ASSUME Asked, route = "auto_approve", agent.confidence <= 100
               PROVE  Route(duplicate, Approving, t, trusted, inv) = "auto_approve"
    BY DEF ApprovingIsWorst
  <2>1. Route(duplicate, agent, t, trusted, inv) = "auto_approve"
    BY RoutingAssumption DEF Asked, Routes
  <2>2. ~duplicate /\ agent # None /\ ~Escalates(agent, t, trusted, inv)
    BY <2>1, Approval
  <2>3. /\ HardStops(inv, t) = {}
        /\ ~(UsdCents(inv) > EffectiveCeiling(t, trusted, inv))
        /\ ~(agent.confidence < t.min_confidence)
    BY <2>2 DEF Escalates
  <2>4. t.min_confidence <= 100
    BY <2>2, <2>3 DEF Asked, Thresholds, AgentRecommendation
  <2>5. ~Escalates(Approving, t, trusted, inv)
    BY <2>3, <2>4 DEF Escalates, Approving, Asked, Thresholds
  <2>6. Approving # None
    BY RoutingAssumption DEF Approving, AgentRecommendation
  <2> QED BY <2>2, <2>5, <2>6 DEF Route, Approving
<1> QED BY <1>1, AskedInvariant, PTL

\* Trust never makes the route of an invoice stricter.
THEOREM TrustHelps == Spec => []TrustOnlyHelps
<1>1. Asked => TrustOnlyHelps
  <2> SUFFICES ASSUME Asked, route = "auto_approve", t.ceiling <= t.trusted_ceiling
               PROVE  Route(duplicate, agent, t, TRUE, inv) = "auto_approve"
    BY DEF TrustOnlyHelps
  <2>1. Route(duplicate, agent, t, trusted, inv) = "auto_approve"
    BY RoutingAssumption DEF Asked, Routes
  <2>2. /\ ~duplicate /\ agent # None /\ "MEAL-03" \notin agent.policy_violations
        /\ ~Escalates(agent, t, trusted, inv)
    BY <2>1, Approval
  <2>3. UsdCents(inv) \in Nat /\ inv.attendees * t.meals_cap \in Nat
    BY UsdCentsType, MealsCapType DEF Asked
  <2>4. EffectiveCeiling(t, trusted, inv) <= EffectiveCeiling(t, TRUE, inv)
    BY <2>3 DEF EffectiveCeiling, Capped, Asked, Thresholds
  <2>5. /\ EffectiveCeiling(t, trusted, inv) \in Int
        /\ EffectiveCeiling(t, TRUE, inv) \in Int
    BY <2>3 DEF EffectiveCeiling, Capped, Asked, Thresholds
  <2>6. ~(UsdCents(inv) > EffectiveCeiling(t, TRUE, inv))
    <3>1. ~(UsdCents(inv) > EffectiveCeiling(t, trusted, inv))
      BY <2>2 DEF Escalates
    <3>2. \A a, b, c \in Int : ~(a > b) /\ b <= c => ~(a > c)
      OBVIOUS
    <3>3. UsdCents(inv) \in Int
      BY <2>3
    <3> QED BY <2>4, <2>5, <3>1, <3>2, <3>3
  <2>7. ~Escalates(agent, t, TRUE, inv)
    BY <2>2, <2>6 DEF Escalates
  <2> QED BY <2>2, <2>7 DEF Route
<1> QED BY <1>1, AskedInvariant, PTL

\* No word in an invoice gets it approved by the stub that is not approved
\* without, as long as a unit of every foreign currency is worth a dollar at
\* least: the stub compares the total in its own currency.
THEOREM NoWordApproves ==
  ASSUME \A c \in DOMAIN Rate : Rate[c] >= 100
  PROVE  Spec => []TextNeverApproves
<1>1. Asked => TextNeverApproves
  <2> DEFINE plain == Plain(text)
  <2> SUFFICES ASSUME Asked, text # None, route = "auto_approve", t.saas_cap <= SaasMonthlyCap
               PROVE  Route(duplicate, Stub(inv, plain), t, trusted, inv) = "auto_approve"
    BY DEF TextNeverApproves
  <2>1. /\ inv \in Invoice /\ t \in Thresholds /\ trusted \in BOOLEAN
        /\ text \in Text /\ agent = Stub(inv, text)
    BY DEF Asked
  <2>2. /\ ~duplicate /\ ~Escalates(Stub(inv, text), t, trusted, inv)
    BY <2>1, Approval, RoutingAssumption DEF Asked, Routes
  <2>3. /\ plain \in Text /\ plain.single_line = text.single_line
        /\ ~plain.alcohol /\ ~plain.premium
    BY <2>1 DEF Plain, Text
  <2>4. /\ Stub(inv, plain).fraud_signals = Stub(inv, text).fraud_signals
        /\ Stub(inv, plain).confidence = Stub(inv, text).confidence
    BY <2>3 DEF Stub, LooksLikeFraud, Confidence
  <2>5. /\ HardStops(inv, t) = {} /\ Violations(inv, text) = {}
        /\ ~(UsdCents(inv) > EffectiveCeiling(t, trusted, inv))
    BY <2>2 DEF Escalates, Stub
  <2>6. ASSUME inv.category = "saas" PROVE ~(Amount(inv) > SaasMonthlyCap)
    <3>1. UsdCents(inv) \in Nat /\ Amount(inv) \in Nat /\ t.saas_cap \in Nat
      BY <2>1, UsdCentsType DEF Amount, Invoice, Thresholds
    <3>2. UsdCents(inv) <= t.saas_cap
      BY <2>1, <2>5, <2>6, <3>1 DEF EffectiveCeiling, Capped, Thresholds
    <3>3. Amount(inv) <= UsdCents(inv)
      <4>1. CASE IsForeign(inv)
        <5>1. Rate[inv.currency] \in Nat /\ Rate[inv.currency] >= 100
          BY <4>1, RouterAssumption DEF IsForeign
        <5>2. \A a, r \in Nat : r >= 100 => a * r >= a * 100
          OBVIOUS
        <5>3. \A a, p \in Nat : p >= a * 100 => a <= (2 * p + 100) \div 200
          OBVIOUS
        <5>4. \A a, r \in Nat : a * r \in Nat /\ 2 * a * r = 2 * (a * r)
          OBVIOUS
        <5> QED BY <3>1, <4>1, <5>1, <5>2, <5>3, <5>4 DEF UsdCents, Converted
      <4>2. CASE ~IsForeign(inv)
        BY <3>1, <4>2 DEF UsdCents
      <4> QED BY <4>1, <4>2
    <3> QED BY <3>1, <3>2, <3>3 DEF SaasMonthlyCap
  <2>7. Violations(inv, plain) = {}
    <3>1. ~(/\ inv.category = "meals" /\ inv.attendees >= 1
            /\ Amount(inv) > inv.attendees * MealsPerAttendee)
      BY <2>5 DEF Violations, Violation
    <3> QED BY <2>3, <2>6, <3>1 DEF Violations, Violation
  <2>8. ~Escalates(Stub(inv, plain), t, trusted, inv)
    <3>1. Stub(inv, plain).policy_violations = {}
      BY <2>7 DEF Stub
    <3> QED BY <2>2, <2>4, <3>1 DEF Escalates
  <2>9. Stub(inv, plain) # None /\ Stub(inv, plain).policy_violations = {}
    BY <2>3, <2>7, StubType, RoutingAssumption DEF Stub
  <2> QED BY <2>2, <2>8, <2>9 DEF Route
<1> QED BY <1>1, AskedInvariant, PTL

--------------------------------------------------------------------------------
Times(s, b) == Cardinality({n \in DOMAIN s : s[n] = b})

\* Hearing an answer counts it once more and no other.
LEMMA HeardOnceMore ==
  ASSUME NEW s \in Seq(Answers), NEW a \in Answers, NEW b
  PROVE  Times(Append(s, a), b) = Times(s, b) + (IF a = b THEN 1 ELSE 0)
<1> DEFINE S == {n \in DOMAIN s : s[n] = b}
<1>1. IsFiniteSet(S) /\ Cardinality(S) \in Nat
  <2>1. IsFiniteSet(1 .. Len(s)) /\ S \subseteq 1 .. Len(s)
    BY FS_Interval
  <2>2. IsFiniteSet(S)
    BY <2>1, FS_Subset
  <2> QED BY <2>2, FS_CardinalityType
<1>2. /\ DOMAIN Append(s, a) = DOMAIN s \cup {Len(s) + 1}
      /\ \A n \in DOMAIN s : Append(s, a)[n] = s[n]
      /\ Append(s, a)[Len(s) + 1] = a
      /\ Len(s) + 1 \notin DOMAIN s
  OBVIOUS
<1>3. CASE a = b
  <2>1. {n \in DOMAIN Append(s, a) : Append(s, a)[n] = b} = S \cup {Len(s) + 1}
    BY <1>2, <1>3
  <2>2. Cardinality(S \cup {Len(s) + 1}) = Cardinality(S) + 1
    BY <1>1, <1>2, FS_AddElement
  <2> QED BY <1>3, <2>1, <2>2 DEF Times
<1>4. CASE a # b
  <2>1. {n \in DOMAIN Append(s, a) : Append(s, a)[n] = b} = S
    BY <1>2, <1>4
  <2>2. Cardinality(S) + 0 = Cardinality(S)
    BY <1>1
  <2> QED BY <1>4, <2>1, <2>2 DEF Times
<1> QED BY <1>3, <1>4

\* While the conversation goes on, the budget has room, no answer was final and
\* the corrective question is the one that was asked; once it ended without a
\* recommendation, one of them is not so.
Conversed ==
  /\ heard \in Seq(Answers)
  /\ used = Len(heard)
  /\ reasked \in BOOLEAN
  /\ used <= MaxAttempts
  /\ route = None =>
       /\ used < MaxAttempts
       /\ Times(heard, "fatal") = 0
       /\ Times(heard, "unusable") = IF reasked THEN 1 ELSE 0
  /\ route # None /\ ~duplicate /\ agent = None =>
       \/ used = MaxAttempts
       \/ Times(heard, "fatal") = 1
       \/ Times(heard, "unusable") = 2

LEMMA ConversedInvariant == Spec => []Conversed
<1>1. Init => Conversed
  <2> SUFFICES ASSUME Init PROVE Conversed
    OBVIOUS
  <2>1. heard = <<>> /\ used = 0 /\ reasked = FALSE /\ route = None
    BY DEF Init
  <2>2. \A b : {n \in DOMAIN heard : heard[n] = b} = {}
    BY <2>1
  <2>3. \A b : Times(heard, b) = 0
    BY <2>2, FS_EmptySet DEF Times
  <2>4. heard \in Seq(Answers) /\ used = Len(heard)
    BY <2>1
  <2>5. used < MaxAttempts /\ used <= MaxAttempts
    BY <2>1, AgentsAssumption
  <2>6. Times(heard, "fatal") = 0 /\ Times(heard, "unusable") = IF reasked THEN 1 ELSE 0
    BY <2>1, <2>3
  <2> QED BY <2>1, <2>4, <2>5, <2>6 DEF Conversed
<1>2. Conversed /\ [Next]_vars => Conversed'
  <2> SUFFICES ASSUME Conversed, [Next]_vars PROVE Conversed'
    OBVIOUS
  <2>1. \A a : RouteInvoice(a) => route' # None /\ agent' = a /\ duplicate' = duplicate
    BY RouteType DEF RouteInvoice, question
  <2>2. ASSUME NEW answer \in Answers, Hear(answer)
        PROVE  /\ route = None /\ used < MaxAttempts /\ used \in Nat /\ MaxAttempts \in Nat
               /\ heard' \in Seq(Answers)
               /\ Len(heard') = used + 1
               /\ \A b : Times(heard', b) =
                          Times(heard, b) + (IF answer = b THEN 1 ELSE 0)
    <3>1. heard' = Append(heard, answer) /\ heard \in Seq(Answers) /\ route = None
      BY <2>2 DEF Hear, Conversed
    <3>2. \A b : Times(heard', b) = Times(heard, b) + (IF answer = b THEN 1 ELSE 0)
      BY <3>1, HeardOnceMore
    <3> QED BY <3>1, <3>2, AgentsAssumption DEF Conversed
  <2>3. CASE Skip
    BY <2>1, <2>3 DEF Skip, Conversed
  <2>4. CASE AskStub
    <3>1. Stub(inv, text') # None
      BY <2>4, StubType, RoutingAssumption DEF AskStub
    <3>2. RouteInvoice(Stub(inv, text')) /\ UNCHANGED <<used, reasked, heard>>
      BY <2>4 DEF AskStub
    <3>3. agent' # None /\ route' # None
      BY <2>1, <3>1, <3>2
    <3> QED BY <3>2, <3>3 DEF Conversed
  <2>5. CASE Recommended
    <3>1. PICK a \in Recommendations : RouteInvoice(a)
      BY <2>5 DEF Recommended
    <3>2. a # None
      BY RoutingAssumption
    <3>3. Hear("recommends") /\ used' = used + 1 /\ reasked' = reasked
      BY <2>5 DEF Recommended
    <3> QED BY <2>1, <2>2, <3>1, <3>2, <3>3 DEF Answers, Conversed
  <2>6. CASE Retryable
    <3>1. /\ Hear("retryable") /\ used' = used + 1 /\ reasked' = reasked
      BY <2>6 DEF Retryable, Continue
    <3>2. \/ used + 1 >= MaxAttempts /\ RouteInvoice(None)
          \/ used + 1 < MaxAttempts /\ route' = route
      BY <2>2, <2>6, <3>1 DEF Retryable, Continue, Exhausted, Answers
    <3> QED BY <2>1, <2>2, <3>1, <3>2 DEF Answers, Conversed
  <2>7. CASE Unusable
    <3>1. Hear("unusable") /\ used' = used + 1 /\ reasked'
      BY <2>7 DEF Unusable, Continue
    <3>2. \/ reasked /\ RouteInvoice(None)
          \/ used + 1 >= MaxAttempts /\ RouteInvoice(None)
          \/ ~reasked /\ used + 1 < MaxAttempts /\ route' = route
      BY <2>2, <2>7, <3>1 DEF Unusable, Continue, Exhausted, Answers
    <3> QED BY <2>1, <2>2, <2>7, <3>1, <3>2 DEF Answers, Conversed, Unusable
  <2>8. CASE Fatal
    <3>1. Hear("fatal") /\ used' = used + 1 /\ RouteInvoice(None) /\ reasked' = reasked
      BY <2>8 DEF Fatal
    <3> QED BY <2>1, <2>2, <3>1 DEF Answers, Conversed
  <2>9. CASE UNCHANGED vars
    BY <2>9 DEF Conversed, vars, question, Times
  <2> QED BY <2>3, <2>4, <2>5, <2>6, <2>7, <2>8, <2>9 DEF Next
<1> QED BY <1>1, <1>2, PTL DEF Spec

\* Whatever the provider answers and however often, transport retries and the
\* corrective question together stay within one budget, and the agent counts as
\* unavailable only once it is used up or the answer was final.
THEOREM BudgetIsShared == Spec => []OneBudget
<1>1. Conversed => OneBudget
  BY DEF Conversed, OneBudget, HowOften, Times
<1> QED BY <1>1, ConversedInvariant, PTL
================================================================================

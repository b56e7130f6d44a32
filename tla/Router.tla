--------------------------------- MODULE Router ---------------------------------
(***************************************************************************)
(* Gates 2 and 3 of the decision service, as pure operators: validate()    *)
(* turns an invoice into an amount in USD cents and a set of hard stops,   *)
(* and route_invoice() turns that and the agent's recommendation into a    *)
(* route.                                                                  *)
(*                                                                         *)
(* Money is in cents.  An invoice keeps what the two gates compare: whether*)
(* its line items and tax add up, whether every number in them parses, and *)
(* a head count that is 0 when the field is missing or unusable.           *)
(***************************************************************************)
EXTENDS Integers

CONSTANTS
  Rate,       \* the exchange rates known, in hundredths of a dollar
  Malformed,  \* a total that does not parse
  None        \* no recommendation: the agent is unavailable

ASSUME RouterAssumption ==
  /\ \A c \in DOMAIN Rate : Rate[c] \in Nat
  /\ Malformed \notin Int

Categories == {"saas", "meals", "travel", "hardware", "other"}

\* What the gates read of an invoice.
Invoice == [total : Nat \cup {Malformed}, currency : STRING, category : Categories,
            attendees : Nat, receipt : BOOLEAN, vendor_known : BOOLEAN,
            adds_up : BOOLEAN, items_parse : BOOLEAN]

\* Confidences are in percent.
Thresholds == [ceiling : Nat, trusted_ceiling : Nat, min_confidence : Nat,
               saas_cap : Nat, meals_cap : Nat]

DefaultThresholds ==
  [ceiling |-> 25000, trusted_ceiling |-> 40000, min_confidence |-> 80,
   saas_cap |-> 20000, meals_cap |-> 7500]

--------------------------------------------------------------------------------
\* validate().

\* The placeholder of a total that does not parse.
Amount(inv) == IF inv.total = Malformed THEN 0 ELSE inv.total

\* Conversion to USD cents, rounded half up.
Converted(amount, rate) == (2 * amount * rate + 100) \div 200

IsForeign(inv) == inv.currency # "USD" /\ inv.currency \in DOMAIN Rate

UsdCents(inv) ==
  IF IsForeign(inv) THEN Converted(Amount(inv), Rate[inv.currency]) ELSE Amount(inv)

MaxForeign    == 100000
NoReceiptUpTo == 2500
TravelUpTo    == 150000

Parses(inv) == inv.total # Malformed /\ inv.items_parse

Stop(name, holds) == IF holds THEN {name} ELSE {}

\* The hard stops of an invoice.
HardStops(inv, t) ==
  LET usd == UsdCents(inv) IN
    Stop("GLOBAL-MALFORMED", ~Parses(inv))
      \cup
    Stop("GLOBAL-FX", IF IsForeign(inv) THEN usd > MaxForeign \/ usd > t.ceiling
                      ELSE inv.currency # "USD")
      \cup
    Stop("GLOBAL-MATH", ~inv.adds_up)
      \cup
    Stop("GLOBAL-RECEIPT", usd > NoReceiptUpTo /\ ~inv.receipt)
      \cup
    Stop("GLOBAL-VENDOR", ~inv.vendor_known)
      \cup
    Stop("MEAL-01", inv.category = "meals" /\ inv.attendees = 0)
      \cup
    Stop("TRAVEL-02", inv.category = "travel" /\ usd > TravelUpTo)

--------------------------------------------------------------------------------
\* route_invoice().

Capped(base, cap) == IF cap < base THEN cap ELSE base

\* Mutant: the trusted ceiling replaces the category cap.
CeilingUplifted(t, trusted, inv) ==
  IF trusted THEN t.trusted_ceiling
  ELSE IF inv.category = "saas" THEN Capped(t.ceiling, t.saas_cap)
  ELSE IF inv.category = "meals" /\ inv.attendees >= 1
       THEN Capped(t.ceiling, inv.attendees * t.meals_cap)
  ELSE t.ceiling

\* Mutant: the uplift is given to strangers.
CeilingSwapped(t, trusted, inv) ==
  LET base == IF trusted THEN t.ceiling ELSE t.trusted_ceiling IN
  IF inv.category = "saas" THEN Capped(base, t.saas_cap)
  ELSE IF inv.category = "meals" /\ inv.attendees >= 1
       THEN Capped(base, inv.attendees * t.meals_cap)
  ELSE base

EffectiveCeiling(t, trusted, inv) ==
  LET base == IF trusted THEN t.trusted_ceiling ELSE t.ceiling IN
  IF inv.category = "saas" THEN Capped(base, t.saas_cap)
  ELSE IF inv.category = "meals" /\ inv.attendees >= 1
       THEN Capped(base, inv.attendees * t.meals_cap)
  ELSE base

\* Mutant: the confidence is compared the wrong way round.
EscalatesWhenSure(agent, t, trusted, inv) ==
  \/ HardStops(inv, t) # {}
  \/ agent.fraud_signals # {}
  \/ UsdCents(inv) > EffectiveCeiling(t, trusted, inv)
  \/ agent.confidence > t.min_confidence
  \/ agent.policy_violations # {}

\* What needs a human, given a recommendation.
Escalates(agent, t, trusted, inv) ==
  \/ HardStops(inv, t) # {}
  \/ agent.fraud_signals # {}
  \/ UsdCents(inv) > EffectiveCeiling(t, trusted, inv)
  \/ agent.confidence < t.min_confidence
  \/ agent.policy_violations # {}

Route(duplicate, agent, t, trusted, inv) ==
  IF duplicate THEN "duplicate"
  ELSE IF agent = None THEN "human_review"
  ELSE IF "MEAL-03" \in agent.policy_violations THEN "reject"
  ELSE IF Escalates(agent, t, trusted, inv) THEN "human_review"
  ELSE "auto_approve"

--------------------------------------------------------------------------------
\* The agent that the tests call malicious: it approves of everything.
Approving == [confidence |-> 100, policy_violations |-> {}, fraud_signals |-> {}]

\* The limit that no agent, trust or category lifts: an amount within the base
\* ceiling in force, and within the cap of its category.
WithinLimits(t, trusted, inv) ==
  /\ UsdCents(inv) <= (IF trusted THEN t.trusted_ceiling ELSE t.ceiling)
  /\ inv.category = "saas"  => UsdCents(inv) <= t.saas_cap
  /\ inv.category = "meals" => UsdCents(inv) <= inv.attendees * t.meals_cap

\* Something Gate 2 can hold against it, said without its hard stops.
Sound(inv) ==
  /\ inv.total # Malformed /\ inv.items_parse /\ inv.adds_up
  /\ inv.vendor_known
  /\ inv.currency = "USD" \/ IsForeign(inv)
  /\ UsdCents(inv) > NoReceiptUpTo => inv.receipt
================================================================================

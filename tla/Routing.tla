--------------------------------- MODULE Routing ---------------------------------
(***************************************************************************)
(* One call of the decision pipeline past its first gate, on any invoice,  *)
(* thresholds and trust: the agent is asked, unless the invoice is a       *)
(* duplicate, and the router decides.  One action is one answer of the     *)
(* provider; the router runs in the step that ends the conversation.       *)
(***************************************************************************)
EXTENDS Agents, FiniteSets, Sequences

CONSTANTS
  Submissions,      \* the invoices routed
  Settings,         \* the thresholds in force
  Recommendations,  \* what the provider may recommend
  Flaky             \* bound: the invoices on which the provider may fail

Routes == {"duplicate", "human_review", "reject", "auto_approve"}

\* An answer of the provider: a recommendation, content that is none, an answer
\* worth a retry (429, 5xx, a transport error), or one that is not.
Answers == {"recommends", "unusable", "retryable", "fatal"}

ASSUME RoutingAssumption ==
  /\ Submissions \subseteq Invoice
  /\ Settings \subseteq Thresholds
  /\ Recommendations \subseteq AgentRecommendation
  /\ None \notin AgentRecommendation \cup Routes \cup Text

VARIABLES
  inv,        \* the invoice
  t,          \* the thresholds
  trusted,    \* the answer of the trust lookup
  duplicate,  \* the answer of the fingerprint registry
  used,       \* attempts taken from the budget
  reasked,    \* the corrective question was asked
  heard,      \* history: the answers of the provider
  text,       \* the text the stub read, None if it was not asked
  agent,      \* the recommendation, None before or without one
  route       \* the route, None before the call

question == <<inv, t, trusted, duplicate>>
vars     == <<question, used, reasked, heard, text, agent, route>>

Init ==
  /\ inv \in Submissions
  /\ t \in Settings
  /\ trusted \in BOOLEAN
  /\ duplicate \in BOOLEAN
  /\ used = 0
  /\ reasked = FALSE
  /\ heard = <<>>
  /\ text = None
  /\ agent = None
  /\ route = None

--------------------------------------------------------------------------------
\* The pipeline continues with recommendation a.
RouteInvoice(a) ==
  /\ agent' = a
  /\ route' = Route(duplicate, a, t, trusted, inv)
  /\ UNCHANGED question

\* The agent is not called for a duplicate.
Skip ==
  /\ route = None /\ duplicate
  /\ RouteInvoice(None)
  /\ UNCHANGED <<used, reasked, heard, text>>

AskStub ==
  /\ route = None /\ ~duplicate /\ used = 0
  /\ text' \in Text
  /\ RouteInvoice(Stub(inv, text'))
  /\ UNCHANGED <<used, reasked, heard>>

Exhausted(n) == n >= MaxAttempts

\* One more request is answered.
Hear(answer) ==
  /\ route = None /\ ~duplicate /\ ~Exhausted(used)
  /\ answer = "recommends" \/ inv \in Flaky
  /\ heard' = Append(heard, answer)
  /\ UNCHANGED text

\* The conversation goes on with n attempts used, unless they are all.
Continue(n) ==
  /\ used' = n
  /\ IF Exhausted(n) THEN RouteInvoice(None) ELSE UNCHANGED <<question, agent, route>>

Recommended ==
  /\ Hear("recommends")
  /\ used' = used + 1
  /\ \E a \in Recommendations : RouteInvoice(a)
  /\ UNCHANGED reasked

Retryable ==
  /\ Hear("retryable")
  /\ Continue(used + 1)
  /\ UNCHANGED reasked

\* Mutant: the corrective question gets a budget of its own.
UnusableAfresh ==
  /\ Hear("unusable")
  /\ reasked' = TRUE
  /\ IF reasked THEN used' = used + 1 /\ RouteInvoice(None) ELSE Continue(0)

\* The one corrective question draws on the same budget.
Unusable ==
  /\ Hear("unusable")
  /\ reasked' = TRUE
  /\ IF reasked THEN used' = used + 1 /\ RouteInvoice(None) ELSE Continue(used + 1)

Fatal ==
  /\ Hear("fatal")
  /\ used' = used + 1
  /\ RouteInvoice(None)
  /\ UNCHANGED reasked

Next == Skip \/ AskStub \/ Recommended \/ Retryable \/ Unusable \/ Fatal

Spec == Init /\ [][Next]_vars

--------------------------------------------------------------------------------
\* Autonomy is bounded whatever the agent says: what is approved without a human
\* is within the base ceiling and the cap of its category, and holds up under
\* Gate 2 (router.py:15-20).
AutonomyIsBounded ==
  route = "auto_approve" => WithinLimits(t, trusted, inv) /\ Sound(inv)

\* No agent gets more approved than the one that approves of everything, so it is
\* enough to test the router against that one, as test_m12_adversarial.py does.
ApprovingIsWorst ==
  (route = "auto_approve" /\ agent.confidence <= 100) =>
    Route(duplicate, Approving, t, trusted, inv) = "auto_approve"

\* Trust only helps: what is approved of a stranger is approved of a trusted
\* vendor, as long as the trusted ceiling is not the lower one.
TrustOnlyHelps ==
  (route = "auto_approve" /\ t.ceiling <= t.trusted_ceiling) =>
    Route(duplicate, agent, t, TRUE, inv) = "auto_approve"

HowOften(answer) == Cardinality({n \in DOMAIN heard : heard[n] = answer})

\* Transport retries and the corrective question draw on one budget ("the re-ask
\* never gets a fresh one", handrolled.py:81-83), and it is used up before the
\* agent counts as unavailable, unless it answered for good or twice unusably.
OneBudget ==
  /\ Len(heard) <= MaxAttempts
  /\ route # None /\ ~duplicate /\ agent = None =>
       Len(heard) = MaxAttempts \/ HowOften("fatal") = 1 \/ HowOften("unusable") = 2

\* The stub cannot be steered: no word in an invoice gets it approved that is not
\* approved without ("must have zero effect on the output", stub.py:9-14).  An
\* annual plan is exempt from the cap of the stub, and only from that; the cap of
\* the router stands as long as it is not tuned above it.
TextNeverApproves ==
  (text # None /\ route = "auto_approve" /\ t.saas_cap <= SaasMonthlyCap) =>
    Route(duplicate, Stub(inv, Plain(text)), t, trusted, inv) = "auto_approve"
================================================================================

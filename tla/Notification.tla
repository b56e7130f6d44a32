------------------------------- MODULE Notification -------------------------------
(***************************************************************************)
(* The notification service: a decision that needs a person or rejects,    *)
(* and the outcome of a payment, become a message to the submitter, sent   *)
(* once through a provider.  The notifications are in memory and die with  *)
(* the process; the dedupe marks do not.                                   *)
(***************************************************************************)
EXTENDS Subscriber

CONSTANT Payload  \* topic, invoice and outcome of each event: see Audit

NotificationAssumption == IsFiniteSet(Events)

\* What a provider answers.
Results == {"Success", "TemporaryFailure", "PermanentFailure", "InvalidRequest", "raised"}

MaxAttempts == 3

VARIABLES
  notifications,  \* the status and the attempts of each one, by event
  told            \* history: messages handed to a provider, by event

vars == <<shell, notifications, told>>

\* Mutant: a rejected invoice is not told, as if a payment event would follow.
HearsNoRejection(e) ==
  \/ Payload[e].topic \in {"payment-completed", "payment-failed"}
  \/ Payload[e].topic = "decision-made" /\ Payload[e].outcome = "human_review"

\* The events that become a message.
Hears(e) ==
  \/ Payload[e].topic \in {"payment-completed", "payment-failed"}
  \/ Payload[e].topic = "decision-made" /\ Payload[e].outcome \in {"human_review", "reject"}

Subscribed(e) == Payload[e].topic \in {"decision-made", "payment-completed", "payment-failed"}

Statuses == {"processing", "sent", "retry_pending", "failed"}

Records == [status : Statuses, attempts : 1 .. MaxAttempts]

TypeOK ==
  /\ unacked \subseteq Events /\ processed \subseteq Events
  /\ pc \in [Handlers -> {"idle", "first_time", "notify", "send", "ack"}]
  /\ event \in [Handlers -> Events \cup {None}]
  /\ \A h \in Handlers : pc[h] # "idle" => event[h] \in Events
  /\ faults \in [AllFaultKinds -> Nat]
  /\ notifications \in [Events -> Records \cup {None}]
  /\ \A h \in Handlers : pc[h] = "send" => notifications[event[h]] \in Records
  /\ told \in [Events -> Nat]

Init ==
  /\ unacked = {e \in Events : Subscribed(e)}
  /\ ShellFresh
  /\ notifications = [e \in Events |-> None]
  /\ told = [e \in Events |-> 0]

--------------------------------------------------------------------------------
\* add_notification, and send_one up to the call of the provider.
Notify(h) ==
  /\ Works(h, "notify", "send")
  /\ notifications' = [notifications EXCEPT ![event[h]] =
       [status |-> "processing", attempts |-> 1]]
  /\ told' = [told EXCEPT ![event[h]] = @ + 1]

\* send_one: the status an answer leads to.
Settled(result, attempts) ==
  IF result = "Success" THEN "sent"
  ELSE IF result = "TemporaryFailure" /\ attempts < MaxAttempts THEN "retry_pending"
  ELSE "failed"

\* The provider answers or raises; either way the event is done with.
Send(h) ==
  /\ Works(h, "send", "ack")
  /\ \E result \in Results :
       notifications' = [notifications EXCEPT ![event[h]].status =
                           Settled(result, notifications[event[h]].attempts)]
  /\ UNCHANGED told

\* The process dies, and the notifications with it.
Die ==
  /\ Crash
  /\ notifications' = [e \in Events |-> None]
  /\ UNCHANGED told

--------------------------------------------------------------------------------
ShellStep(h) == FirstTime(h, "notify") \/ Ack(h)

Next ==
  \/ /\ \/ \E h \in Handlers, e \in unacked : Hears(e) /\ Deliver(h, e)
        \/ \E e \in unacked : ~Hears(e) /\ Filter(e)
        \/ \E h \in Handlers : ShellStep(h) \/ RaiseInFirstTime(h)
     /\ UNCHANGED <<notifications, told>>
  \/ \E h \in Handlers : Notify(h) \/ Send(h)
  \/ Die

Spec == Init /\ [][Next]_vars

--------------------------------------------------------------------------------
\* Properties.

\* No event is told twice, whatever is delivered again after whichever fault:
\* "a second notification" is what subscriptions.py:66-71 holds for unreachable.
ToldOnce == \A e \in Events : told[e] <= 1

\* The ends of a story that the service hears of: a payment report, or the
\* router's rejection.  (A rejection by a human and a duplicate it does not.)
Ends(i) ==
  {e \in Events : /\ Payload[e].invoice = i
                 /\ \/ Payload[e].topic \in {"payment-completed", "payment-failed"}
                    \/ Payload[e].topic = "decision-made" /\ Payload[e].outcome = "reject"}

\* The messages about an invoice.
ToldAbout(i) == SumFunctionOnSet(told, {e \in Events : Payload[e].invoice = i})

\* Once every event is acknowledged, the submitter was told of each rejection by
\* the router and each report of a payment, and whoever was paid without a human
\* of nothing else ("notifying on both would double-message",
\* subscriptions.py:8-12).  Told is handed to a provider, whatever it answers.  (A
\* mark that outlives its handler makes the redelivery a duplicate.)
EndIsTold ==
  AtRest /\ ~Suffered({"mark", "crash"}) =>
    \A i \in {Payload[e].invoice : e \in Events} :
      /\ \A e \in Ends(i) : told[e] = 1
      /\ (\A e \in Events : Payload[e].invoice = i => Payload[e].outcome # "human_review") =>
           ToldAbout(i) = Cardinality(Ends(i))
================================================================================

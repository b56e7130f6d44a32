-------------------------------- MODULE Listeners --------------------------------
(***************************************************************************)
(* The two services that only listen, audit and notification, each on a    *)
(* story of events.  They share nothing, so a behaviour is one of either:  *)
(* Init chooses, and each has its own faults.                              *)
(***************************************************************************)
EXTENDS Naturals

CONSTANTS
  Handlers, Auditors, Events, Invoices, MaxReports, MaxFaults, None,
  AuditStory, NotificationStory   \* what the events say: see PayloadType in Audit

VARIABLES
  listener, unacked, processed, pc, event, faults,
  trail, index, counted, reports, notifications, told

Audit == INSTANCE Audit WITH
  Payload <- AuditStory, FaultKinds <- {"call", "miss", "twice", "mark", "forget", "crash"}

Notification == INSTANCE Notification WITH
  Payload <- NotificationStory, FaultKinds <- {"twice", "mark", "crash"}

ASSUME ListenersAssumption ==
  /\ Audit!SubscriberAssumption /\ Audit!AuditAssumption
  /\ Notification!SubscriberAssumption /\ Notification!NotificationAssumption

vars == <<listener, unacked, processed, pc, event, faults, trail, index, counted, reports,
          notifications, told>>

Init ==
  \/ /\ listener = "audit" /\ Audit!Init
     /\ notifications = None /\ told = None
  \/ /\ listener = "notification" /\ Notification!Init
     /\ trail = None /\ index = None /\ counted = None /\ reports = None

Next ==
  /\ UNCHANGED listener
  /\ \/ listener = "audit" /\ Audit!Next /\ UNCHANGED <<notifications, told>>
     \/ listener = "notification" /\ Notification!Next
        /\ UNCHANGED <<trail, index, counted, reports>>

Spec == Init /\ [][Next]_vars

--------------------------------------------------------------------------------
\* Properties.

\* The properties of the audit service (module Audit): a replay records nothing
\* again, nothing acknowledged is missing, and the proof of the endpoint is sound.
RecordedOnce     == listener = "audit" => Audit!RecordedOnce
NothingIsMissing == listener = "audit" => Audit!NothingIsMissing
ProofIsSound     == listener = "audit" => Audit!ProofIsSound

\* The properties of the notification service (module Notification): no event is
\* told twice, and every rejection by the router and every report of a payment is.
ToldOnce  == listener = "notification" => Notification!ToldOnce
EndIsTold == listener = "notification" => Notification!EndIsTold
================================================================================

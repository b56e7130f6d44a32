-------------------------------- MODULE Subscriber --------------------------------
(***************************************************************************)
(* What the subscribers of every service have in common: the broker        *)
(* delivers an event until it is acknowledged; a handler marks the event   *)
(* before it works on it, acknowledges a marked one as a duplicate, and    *)
(* forgets the mark when its work raises.  The work is the service's own.  *)
(***************************************************************************)
EXTENDS Integers, FiniteSetsExt

CONSTANTS
  Handlers,    \* concurrent activations of the subscribers
  Events,      \* the events published
  FaultKinds,  \* which faults may happen: see AllFaultKinds
  MaxFaults,   \* bound on the number of faults
  None

\* call: a call of the work raises; miss: a read of a key that exists finds
\* nothing; twice: an event is delivered while it is being handled; mark, forget,
\* crash: see the actions.
AllFaultKinds == {"call", "miss", "twice", "mark", "forget", "crash"}

\* What is assumed of the constants (by every instance: see MCListeners).
SubscriberAssumption ==
  /\ MaxFaults \in Nat
  /\ FaultKinds \subseteq AllFaultKinds
  /\ None \notin Events

VARIABLES
  unacked,    \* events the broker still has to deliver (again)
  processed,  \* dedupe marks, processed:{event_id}
  pc,         \* the next call of every handler
  event,      \* the event of each handler
  faults      \* faults so far, by kind

shell == <<unacked, processed, pc, event, faults>>

\* Nothing was handled yet.
ShellFresh ==
  /\ processed = {}
  /\ pc        = [h \in Handlers |-> "idle"]
  /\ event     = [h \in Handlers |-> None]
  /\ faults    = [kind \in AllFaultKinds |-> 0]

Goto(h, next) == pc' = [pc EXCEPT ![h] = next]

Fault(kind) ==
  /\ kind \in FaultKinds
  /\ MapThenSumSet(LAMBDA k : faults[k], AllFaultKinds) < MaxFaults
  /\ faults' = [faults EXCEPT ![kind] = @ + 1]

\* A fault of one of the kinds happened.
Suffered(kinds) == \E kind \in kinds : faults[kind] > 0

\* The handler leaves, whatever it answered.
Leave(h) ==
  /\ Goto(h, "idle")
  /\ event' = [event EXCEPT ![h] = None]

Deliver(h, e) ==
  /\ pc[h] = "idle"
  /\ e \in unacked
  /\ IF \E g \in Handlers : event[g] = e THEN Fault("twice") ELSE UNCHANGED faults
  /\ Goto(h, "first_time")
  /\ event' = [event EXCEPT ![h] = e]
  /\ UNCHANGED <<unacked, processed>>

\* An event the service does not act on is acknowledged unmarked.
Filter(e) ==
  /\ e \in unacked
  /\ unacked' = unacked \ {e}
  /\ UNCHANGED <<processed, pc, event, faults>>

\* Mutant: the mark is looked up and not written.
FirstTimeUnmarked(h, work) ==
  /\ pc[h] = "first_time"
  /\ Goto(h, IF event[h] \in processed THEN "ack" ELSE work)
  /\ UNCHANGED <<unacked, processed, event, faults>>

\* work is the first call of the service's own.
FirstTime(h, work) ==
  /\ pc[h] = "first_time"
  /\ Goto(h, IF event[h] \in processed THEN "ack" ELSE work)
  /\ processed' = processed \cup {event[h]}
  /\ UNCHANGED <<unacked, event, faults>>

Ack(h) ==
  /\ pc[h] = "ack"
  /\ unacked' = unacked \ {event[h]}
  /\ Leave(h)
  /\ UNCHANGED <<processed, faults>>

\* Mutant: the handler fails without undoing its mark.
ForgetNothing(h) ==
  /\ pc[h] = "forget"
  /\ Leave(h)
  /\ UNCHANGED <<unacked, processed, faults>>

\* _compensate_forget, then the error the broker answers with a redelivery.
Forget(h) ==
  /\ pc[h] = "forget"
  /\ processed' = processed \ {event[h]}
  /\ Leave(h)
  /\ UNCHANGED <<unacked, faults>>

\* A step of the work takes the handler from `at` to `next`.
Works(h, at, next) ==
  /\ pc[h] = at
  /\ Goto(h, next)
  /\ UNCHANGED <<unacked, processed, event, faults>>

\* A call of the work raises.
Raise(h, body) ==
  /\ pc[h] \in body
  /\ Fault("call")
  /\ Goto(h, "forget")
  /\ UNCHANGED <<unacked, processed, event>>

\* first_time() itself raises, outside the try block: nobody forgets the mark,
\* which may have been written.
RaiseInFirstTime(h) ==
  /\ pc[h] = "first_time"
  /\ Fault("mark")
  /\ processed' \in {processed, processed \cup {event[h]}}
  /\ Leave(h)
  /\ UNCHANGED unacked

\* forget() raises too, is logged, and the mark persists.
ForgetFails(h) ==
  /\ pc[h] = "forget"
  /\ Fault("forget")
  /\ Leave(h)
  /\ UNCHANGED <<unacked, processed>>

\* The process dies: every handler vanishes, the marks and the broker stay.
Crash ==
  /\ \E h \in Handlers : pc[h] # "idle"
  /\ Fault("crash")
  /\ pc'    = [h \in Handlers |-> "idle"]
  /\ event' = [h \in Handlers |-> None]
  /\ UNCHANGED <<unacked, processed>>

AtRest == unacked = {} /\ \A h \in Handlers : pc[h] = "idle"
================================================================================

---------------------------- MODULE Notification ----------------------------
(***************************************************************************)
(* An event on its way to a mail: published by the trading service         *)
(* (trading/pubsub/event.go), which does not wait for the result, kept and *)
(* delivered by the broker, and mailed by the notification function        *)
(* (notification/function.go, mail.go), of which one invocation runs at a  *)
(* time.  Nothing retries an invocation that failed: the trigger of the    *)
(* function has no failure policy (infrastructure/terraform/functions.tf). *)
(***************************************************************************)
EXTENDS Naturals, FiniteSets

CONSTANTS
  Events,         \* events that are published, each of them once
  None,           \* no event
  MaxCopies       \* bound: messages the broker makes of an event

ASSUME CopiesAssumption == MaxCopies \in Nat \ {0}
ASSUME NoneAssumption == None \notin Events

VARIABLES
  event,      \* event[e]: how far the publisher has got with e
  copies,     \* copies[e]: messages of e ever made by the broker
  undelivered,\* undelivered[e]: those of them not yet handled
  invocation, \* the event the function is working on, or None
  step,       \* where the invocation is
  mails,      \* mails[e]: mails that were sent for e
  log         \* events about which an error was logged

publisher == event
broker == <<copies, undelivered>>
function == <<invocation, step>>
mailVars == <<event, broker, function, mails, log>>
-----------------------------------------------------------------------------
MailTypeOK ==
  /\ event \in [Events -> {"new", "sending", "published", "failed", "lost"}]
  /\ copies \in [Events -> 0 .. MaxCopies]
  /\ undelivered \in [Events -> 0 .. MaxCopies]
  /\ invocation \in Events \cup {None}
  /\ step \in {"idle", "started", "ready", "sent"}
  /\ mails \in [Events -> 0 .. MaxCopies]
  /\ log \subseteq Events

MailInit ==
  /\ event = [e \in Events |-> "new"]
  /\ copies = [e \in Events |-> 0]
  /\ undelivered = [e \in Events |-> 0]
  /\ invocation = None /\ step = "idle"
  /\ mails = [e \in Events |-> 0]
  /\ log = {}

Becomes(e, state) == event' = [event EXCEPT ![e] = state]

-----------------------------------------------------------------------------
(* The publisher.                                                          *)

\* Publish hands the event to the client library and returns.
Publish(e) ==
  /\ event[e] = "new"
  /\ Becomes(e, "sending")
  /\ UNCHANGED <<broker, function, mails, log>>

\* Mutation: the result is not waited for.
ResultForgotten(e) ==
  /\ event[e] = "sending"
  /\ Becomes(e, "failed")
  /\ UNCHANGED <<broker, function, mails, log>>

\* The goroutine gets an error instead of an identifier and logs it; the
\* broker may have the message all the same.
ResultFails(e) ==
  /\ event[e] = "sending"
  /\ Becomes(e, "failed")
  /\ log' = log \cup {e}
  /\ UNCHANGED <<broker, function, mails>>

\* The process ends with all that it was still sending.
Crash ==
  /\ \E e \in Events : event[e] = "sending"
  /\ event' = [e \in Events |-> IF event[e] = "sending" THEN "lost" ELSE event[e]]
  /\ UNCHANGED <<broker, function, mails, log>>

-----------------------------------------------------------------------------
(* The broker, an external service.                                        *)

NewMessage(e) ==
  /\ copies[e] < MaxCopies
  /\ copies' = [copies EXCEPT ![e] = @ + 1]
  /\ undelivered' = [undelivered EXCEPT ![e] = @ + 1]
  /\ UNCHANGED <<function, mails, log>>

Accept(e) == event[e] = "sending" /\ NewMessage(e) /\ Becomes(e, "published")

\* The answer is lost: the client library sends the message again.
AcceptSilently(e) == event[e] = "sending" /\ NewMessage(e) /\ UNCHANGED event

\* A message is delivered again.
Repeat(e) == copies[e] > 0 /\ NewMessage(e) /\ UNCHANGED event

\* Messages are delivered in any order.
Deliver(e) ==
  /\ invocation = None
  /\ undelivered[e] > 0
  /\ undelivered' = [undelivered EXCEPT ![e] = @ - 1]
  /\ invocation' = e /\ step' = "started"
  /\ UNCHANGED <<publisher, copies, mails, log>>

-----------------------------------------------------------------------------
(* The function.                                                           *)

Goto(label) == step' = label /\ UNCHANGED invocation

Return == invocation' = None /\ step' = "idle"

\* Mutation: the error is not returned.
FailsQuietly ==
  /\ step \in {"started", "ready", "sent"}
  /\ Return
  /\ UNCHANGED <<publisher, broker, mails, log>>

\* The settings are wrong, the connection is refused, or the mail was sent and
\* the rest of the conversation fails: the platform logs the error.
Fails ==
  /\ step \in {"started", "ready", "sent"}
  /\ Return
  /\ log' = log \cup {invocation}
  /\ UNCHANGED <<publisher, broker, mails>>

InitializeMailService ==
  /\ step = "started"
  /\ Goto("ready")
  /\ UNCHANGED <<publisher, broker, mails, log>>

SendMail ==
  /\ step = "ready"
  /\ mails' = [mails EXCEPT ![invocation] = @ + 1]
  /\ Goto("sent")
  /\ UNCHANGED <<publisher, broker, log>>

Succeed ==
  /\ step = "sent"
  /\ Return
  /\ UNCHANGED <<publisher, broker, mails, log>>

ProcessEvent == InitializeMailService \/ SendMail \/ Succeed \/ Fails

MailNext ==
  \/ \E e \in Events : \/ Publish(e) \/ ResultFails(e)
                       \/ Accept(e) \/ AcceptSilently(e) \/ Repeat(e)
                       \/ Deliver(e)
  \/ Crash
  \/ ProcessEvent

MailSpec == MailInit /\ [][MailNext]_mailVars

\* The client library sends, or gives up, what it was handed; the broker
\* delivers what it accepted; an invocation ends, by its result or by its
\* deadline.
Fairness ==
  /\ \A e \in Events : /\ WF_mailVars(Accept(e) \/ ResultFails(e))
                       /\ SF_mailVars(Deliver(e))
  /\ WF_mailVars(ProcessEvent)

FairSpec == MailSpec /\ Fairness
=============================================================================

----------------------- MODULE NotificationProperties -----------------------
(* What the owner of an account may rely on.                               *)
EXTENDS Notification

\* Nobody is working on e any more.
Settled(e) == event[e] \notin {"new", "sending"} /\ undelivered[e] = 0 /\ invocation # e

\* An event that was not mailed left an error in a log, the publisher's
\* (trading/pubsub/event.go:58-63) or the function's (notification/function.go:33-47),
\* unless the process that published it ended before it was told the result.
LossLeavesTrace ==
  \A e \in Events : Settled(e) /\ event[e] # "lost" => mails[e] > 0 \/ e \in log

\* The function sends no more mails for an event than it got messages for it
\* (notification/mail.go:37): what arrives twice was delivered twice.
OneMailPerMessage ==
  \A e \in Events : mails[e] + undelivered[e] <= copies[e]

\* What the publisher believes to be published has been kept by the broker
\* (trading/pubsub/event.go:56-66), and what is mailed has been published.
PublishedIsKept ==
  \A e \in Events : /\ event[e] = "published" => copies[e] > 0
                    /\ mails[e] > 0 => event[e] # "new"

\* Every event that is published is mailed, or its loss is logged, or the
\* process ends while it is being sent.
EventuallyTold ==
  \A e \in Events :
    event[e] = "sending" ~> mails[e] > 0 \/ e \in log \/ event[e] = "lost"

-----------------------------------------------------------------------------
\* The function works on an event exactly while an invocation runs, and has
\* mailed it when it is about to succeed.
InvocationKept == /\ step = "idle" <=> invocation = None
                  /\ step = "sent" => mails[invocation] > 0

\* The messages that are not waiting have been mailed, each of them once at
\* most, but for the one that the function has in hand.
InHand(e) == IF invocation = e /\ step \in {"started", "ready"} THEN 1 ELSE 0

MessagesAccounted ==
  \A e \in Events : mails[e] + undelivered[e] + InHand(e) <= copies[e]

\* A message the broker has ever made waits, is worked on, or was mailed or
\* given up with an error; a publisher that was told an error has logged it.
NothingVanishes ==
  \A e \in Events :
    /\ copies[e] > 0 => undelivered[e] > 0 \/ invocation = e \/ mails[e] > 0 \/ e \in log
    /\ event[e] = "failed" => e \in log
    /\ event[e] = "new" => copies[e] = 0

\* What becomes of an event while it is on its way and afterwards: an inductive
\* invariant, whose last three conjuncts say why the others hold.
MailInv == /\ MailTypeOK
           /\ LossLeavesTrace
           /\ OneMailPerMessage
           /\ PublishedIsKept
           /\ InvocationKept
           /\ MessagesAccounted
           /\ NothingVanishes
=============================================================================

---------------------------- MODULE OrderPipeline ----------------------------
(***************************************************************************)
(* The way of an orders/create webhook into Odoo: Shopify, the Lambda       *)
(* (WebhookEdge), the queue (Delivery, which SqsWorker implements), the     *)
(* agent that forwards it, and the import (OrderIntake).                    *)
(*                                                                         *)
(* Each attempt of a sender that is enqueued is a message, and each receive *)
(* of a message is a delivery.  The agent waits for Odoo's answer no longer *)
(* than its HTTP client's timeout; Odoo may go on without it.               *)
(***************************************************************************)
EXTENDS Naturals, FiniteSets

CONSTANTS Webhooks,      \* the orders/create webhooks Shopify has to deliver
          Containers, EnvSecret, Skus,
          MaxBegun,
          MaxAttempts,   \* bound: requests a sender makes
          MaxReceives    \* maxReceiveCount of the queue

ASSUME OrderPipelineAssumption ==
    /\ MaxAttempts \in Nat /\ MaxBegun \in Nat /\ MaxReceives \in Nat \ {0}
    /\ EnvSecret \in BOOLEAN

Messages == Webhooks \X (1..MaxAttempts)
Deliveries == Messages \X (1..MaxReceives)

MessageOf(d) == d[1]
WebhookOf(m) == m[1]
OrderOf(d) == WebhookOf(MessageOf(d))

VARIABLES cache, attempts, acked,                            \* the Lambda
          stage, received, handled,                          \* the queue
          request, sale, partners, products, overlapped,     \* Odoo
          waiting                \* deliveries the agent awaits an answer of

Edge == INSTANCE WebhookEdge
Queue == INSTANCE Delivery WITH Malformed <- {}
Intake == INSTANCE OrderIntake

edgeVars == <<cache, attempts, acked>>
queueVars == <<stage, received, handled>>
intakeVars == <<request, sale, partners, products, overlapped>>
vars == <<edgeVars, queueVars, intakeVars, waiting>>

Init ==
    /\ Edge!EdgeInit
    /\ Queue!Init
    /\ Intake!IntakeInit
    /\ waiting = {}

-----------------------------------------------------------------------------
\* The Lambda handles a request, and its message is in the queue or not.
WebhookArrives(c, r) ==
    /\ \E enqueued \in BOOLEAN :
          /\ Edge!LambdaHandler(c, r, enqueued)
          /\ IF enqueued THEN Queue!Send(<<r, attempts[r] + 1>>)
             ELSE UNCHANGED queueVars
    /\ UNCHANGED <<intakeVars, waiting>>

ContainerChanges(c) ==
    /\ Edge!StrayRequest(c) \/ Edge!Recycle(c)
    /\ UNCHANGED <<queueVars, intakeVars, waiting>>

Held(m) == \E d \in waiting : MessageOf(d) = m

NextDelivery(m) == <<m, received[m] + 1>>

\* A worker of the agent receives the message and posts it to Odoo.
Forward(m) ==
    /\ ~Held(m)
    /\ Queue!Receive({m})
    /\ Intake!Post(NextDelivery(m))
    /\ waiting' = waiting \cup {NextDelivery(m)}
    /\ UNCHANGED edgeVars

OdooStep(d) ==
    /\ Intake!IntakeStep(d)
    /\ UNCHANGED <<edgeVars, queueVars, waiting>>

\* Mutant: raise_for_status is missing.
AnyAnswer(d) == request[d].pc \in {"ok", "error"}

\* forward_order_create returns.
AnsweredWell(d) == request[d].pc = "ok"

Succeeds(d) ==
    /\ d \in waiting
    /\ AnsweredWell(d)
    /\ Queue!Handle(MessageOf(d))
    /\ waiting' = waiting \ {d}
    /\ UNCHANGED <<edgeVars, intakeVars>>

\* Mutant: the client waits for ever.
OnlyErrors(d) == request[d].pc = "error"

\* An answer of 500, a broken connection, or the client's timeout, whatever Odoo
\* is doing.
Gone(d) == TRUE

Fails(d) ==
    /\ d \in waiting
    /\ Gone(d)
    /\ waiting' = waiting \ {d}
    /\ UNCHANGED <<edgeVars, queueVars, intakeVars>>

\* Deleted after a handling that succeeded, or dead after its last receive.
LeavesQueue(m) ==
    /\ ~Held(m)
    /\ Queue!Delete(m) \/ Queue!DeadLetter(m)
    /\ UNCHANGED <<edgeVars, intakeVars, waiting>>

Next ==
    \/ \E c \in Containers : \/ ContainerChanges(c)
                             \/ \E r \in Webhooks : WebhookArrives(c, r)
    \/ \E m \in Messages : Forward(m) \/ LeavesQueue(m)
    \/ \E d \in Deliveries : OdooStep(d) \/ Succeeds(d) \/ Fails(d)

Spec == Init /\ [][Next]_vars

\* The agent's workers poll (SqsWorker), and its client has a timeout.  Nothing
\* is assumed of Odoo, of AWS or of the senders.
Fairness ==
    /\ \A m \in Messages : WF_vars(Forward(m) \/ LeavesQueue(m))
    /\ \A d \in Deliveries : WF_vars(Fails(d))

FairSpec == Spec /\ Fairness
-----------------------------------------------------------------------------
TypeOK ==
    /\ Edge!EdgeTypeOK
    /\ stage \in [Messages -> {"unsent", "queued", "deleted", "dead"}]
    /\ received \in [Messages -> 0..MaxReceives]
    /\ handled \in SUBSET Messages
    /\ Intake!IntakeTypeOK
    /\ waiting \in SUBSET Deliveries

ImportedOnce == Intake!ImportedOnce
CatalogTidy == Intake!CatalogTidy

MessagesOf(r) == {m \in Messages : WebhookOf(m) = r}

\* "Drop verified payloads onto SQS" (handler.py:11): what a sender has seen
\* acknowledged is in the queue, through whichever containers and attempts.
AcknowledgedIsQueued == \A r \in acked : \E m \in MessagesOf(r) : stage[m] # "unsent"

\* A message the agent is done with is an order in Odoo, and a whole one unless
\* a delivery of it failed after it had created the order.
FailedLate(r) ==
    \E d \in Deliveries : /\ WebhookOf(MessageOf(d)) = r
                          /\ request[d].pc = "error"
                          /\ sale[d] # Intake!NoRow

HandledIsImported ==
    \A m \in handled :
        \/ \E d \in Intake!Rows(WebhookOf(m)) : Intake!Whole(d)
        \/ FailedLate(WebhookOf(m))

\* Whatever Odoo does, an order that was acknowledged ends: its message is
\* deleted, which HandledIsImported is about, or with the dead letters.
AcknowledgedIsSettled ==
    \A r \in Webhooks :
        r \in acked ~> \E m \in MessagesOf(r) : stage[m] \in {"deleted", "dead"}

\* "Never lose an order ... Any hard failure is raised so the caller returns 5xx
\* and SQS redelivers" (ai_ops_order_intake.py:14-16): an order is in Odoo whole
\* once its message is deleted.
NeverLosesAnOrder ==
    \A m \in Messages :
        stage[m] = "deleted" => \E d \in Intake!Rows(WebhookOf(m)) : Intake!Whole(d)
=============================================================================

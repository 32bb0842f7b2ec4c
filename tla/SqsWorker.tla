----------------------------- MODULE SqsWorker ------------------------------
(***************************************************************************)
(* The webhook queue and the SqsWorker of each replica of the agent         *)
(* (agent/app/sqs_worker.py, started and stopped by agent/app/main.py).     *)
(*                                                                         *)
(* A worker receives a batch, handles its messages concurrently and polls   *)
(* again when all of them are settled.  A message it received is hidden     *)
(* from the others until its visibility timeout, which may run out while it *)
(* is handled.  A replica may stop gracefully or be killed at any point.    *)
(*                                                                         *)
(* SQS is external (terraform/modules/webhooks/main.tf configures it);      *)
(* what handle_sqs_message does to Odoo or to a paused run is modelled in   *)
(* Gatekeeper and ApprovalGraph, here it succeeds or raises.                *)
(***************************************************************************)
EXTENDS Naturals, FiniteSets

CONSTANTS Messages,
          Malformed,     \* messages whose body is not JSON
          Replicas,      \* tasks of the agent's ECS service
          MaxReceives,   \* the queue's maxReceiveCount
          MaxBatch       \* sqs_max_messages

ASSUME SqsAssumption ==
    /\ Malformed \subseteq Messages
    /\ MaxReceives \in Nat \ {0}
    /\ MaxBatch \in Nat \ {0}

VARIABLES
    stage,      \* of each message in the queue
    hidden,     \* messages whose visibility timeout is running
    received,   \* ApproximateReceiveCount
    loop,       \* where SqsWorker.run is, in each replica
    stopping,   \* replicas whose _stop event is set
    work,       \* the _handle of each message of a replica's batch
    \* History, read by the properties only:
    handled,    \* messages of which some handling succeeded
    outlasted   \* messages a handler still held when they became visible

vars == <<stage, hidden, received, loop, stopping, work, handled, outlasted>>

queueVars == <<stage, hidden, received>>
history == <<handled, outlasted>>

\* One _handle, with the receipt of the receive it belongs to.
Work == [pc: {"none", "handling", "deleting"}, receipt: 0..MaxReceives]

NoWork == [pc |-> "none", receipt |-> 0]

Holds(r, m) == work[r][m].pc # "none"

Init ==
    /\ stage = [m \in Messages |-> "unsent"]
    /\ hidden = {}
    /\ received = [m \in Messages |-> 0]
    /\ loop = [r \in Replicas |-> "polling"]
    /\ stopping = {}
    /\ work = [r \in Replicas |-> [m \in Messages |-> NoWork]]
    /\ handled = {} /\ outlasted = {}

-----------------------------------------------------------------------------
(* The queue *)

\* The Lambda enqueues a verified webhook.
Send(m) ==
    /\ stage[m] = "unsent"
    /\ stage' = [stage EXCEPT ![m] = "queued"]
    /\ UNCHANGED <<hidden, received, loop, stopping, work, history>>

\* sqs_visibility_timeout passes: handled slowly, left for retry, or dropped.
VisibilityTimeout(m) ==
    /\ m \in hidden
    /\ hidden' = hidden \ {m}
    /\ outlasted' = IF \E r \in Replicas : Holds(r, m)
                    THEN outlasted \cup {m} ELSE outlasted
    /\ UNCHANGED <<stage, received, loop, stopping, work, handled>>

Visible(m) == stage[m] = "queued" /\ m \notin hidden

\* Mutant: no redrive policy.
AnyVisible(m) == Visible(m)

Receivable(m) == Visible(m) /\ received[m] < MaxReceives

\* The redrive policy, applied when somebody polls.
DeadLetter(m) ==
    /\ Visible(m) /\ received[m] = MaxReceives
    /\ \E r \in Replicas : loop[r] = "polling"
    /\ stage' = [stage EXCEPT ![m] = "dead"]
    /\ UNCHANGED <<hidden, received, loop, stopping, work, history>>

-----------------------------------------------------------------------------
(* SqsWorker.run *)

\* The loop's condition: a worker told to stop does not poll again.
PollsAgain(r) ==
    loop' = [loop EXCEPT ![r] = IF r \in stopping THEN "over" ELSE "polling"]

Batches == {b \in SUBSET Messages : b # {} /\ Cardinality(b) <= MaxBatch}

\* Mutant: VisibilityTimeout=0 in the call.
HideNothing(batch) == hidden

\* The messages that the VisibilityTimeout of the call hides.
Hide(batch) == hidden \cup batch

Take(batch) ==
    /\ \A m \in batch : Receivable(m)
    /\ received' = [m \in Messages |-> IF m \in batch THEN received[m] + 1
                                       ELSE received[m]]
    /\ hidden' = Hide(batch)

\* A batch is received, maybe by a call that was under way at stop(); gather
\* starts one _handle per message.
Receive(r, batch) ==
    /\ loop[r] = "polling"
    /\ Take(batch)
    /\ loop' = [loop EXCEPT ![r] = "batch"]
    /\ work' = [work EXCEPT ![r] =
                   [m \in Messages |->
                       IF m \in batch THEN [pc |-> "handling",
                                            receipt |-> received'[m]]
                       ELSE NoWork]]
    /\ UNCHANGED <<stage, stopping, history>>

\* The answer of receive_message is lost; run backs off and polls again.
ReceiveRaises(r, batch) ==
    /\ loop[r] = "polling"
    /\ Take(batch)
    /\ PollsAgain(r)
    /\ UNCHANGED <<stage, stopping, work, history>>

\* Mutant: a batch is over when the queue has none of its messages any more.
AllDeleted(r) == \A m \in Messages : stage[m] # "queued"

\* gather returns when every _handle of the batch has.
BatchSettled(r) == \A m \in Messages : ~Holds(r, m)

BatchDone(r) ==
    /\ loop[r] = "batch" /\ BatchSettled(r)
    /\ PollsAgain(r)
    /\ UNCHANGED <<queueVars, stopping, work, history>>

-----------------------------------------------------------------------------
(* SqsWorker._handle *)

Settle(r, m) == work' = [work EXCEPT ![r][m] = NoWork]

ToDelete(r, m) == work' = [work EXCEPT ![r][m].pc = "deleting"]

\* The body is not JSON.
Discard(r, m) ==
    /\ work[r][m].pc = "handling" /\ m \in Malformed
    /\ ToDelete(r, m)
    /\ UNCHANGED <<queueVars, loop, stopping, history>>

HandleSucceeds(r, m) ==
    /\ work[r][m].pc = "handling" /\ m \notin Malformed
    /\ ToDelete(r, m)
    /\ handled' = handled \cup {m}
    /\ UNCHANGED <<queueVars, loop, stopping, outlasted>>

\* Mutant: the delete is in a finally clause.
DeletedAnyway(r, m) == ToDelete(r, m)

\* "Failed to handle SQS message; leaving for retry."
LeftForRetry(r, m) == Settle(r, m)

HandleRaises(r, m) ==
    /\ work[r][m].pc = "handling" /\ m \notin Malformed
    /\ LeftForRetry(r, m)
    /\ UNCHANGED <<queueVars, loop, stopping, history>>

\* delete_message: the receipt of an earlier receive may have no effect, nor has
\* any on a message that left the queue.
DeleteMessage(r, m) ==
    \/ /\ stage[m] = "queued"
       /\ stage' = [stage EXCEPT ![m] = "deleted"]
       /\ hidden' = hidden \ {m}
    \/ /\ stage[m] # "queued" \/ work[r][m].receipt # received[m]
       /\ UNCHANGED <<stage, hidden>>

_Delete(r, m) ==
    /\ work[r][m].pc = "deleting"
    /\ DeleteMessage(r, m)
    /\ Settle(r, m)
    /\ UNCHANGED <<received, loop, stopping, history>>

\* Neither _handle nor run catches it: gather raises at once and run is over,
\* the other messages of the batch are still handled, and the replica stays up.
DeleteRaises(r, m) ==
    /\ work[r][m].pc = "deleting"
    /\ DeleteMessage(r, m) \/ UNCHANGED <<stage, hidden>>
    /\ Settle(r, m)
    /\ loop' = [loop EXCEPT ![r] = "dead"]
    /\ UNCHANGED <<received, stopping, history>>

-----------------------------------------------------------------------------
(* lifespan *)

\* worker.stop().
Stop(r) ==
    /\ loop[r] # "down" /\ r \notin stopping
    /\ stopping' = stopping \cup {r}
    /\ UNCHANGED <<queueVars, loop, work, history>>

\* The process ends: run has returned, or 30 s have passed and it is cancelled
\* amid a batch, or it is killed.
Exit(r) ==
    /\ loop[r] # "down"
    /\ loop' = [loop EXCEPT ![r] = "down"]
    /\ stopping' = stopping \ {r}
    /\ work' = [work EXCEPT ![r] = [m \in Messages |-> NoWork]]
    /\ UNCHANGED <<queueVars, history>>

\* The service starts another task in its place.
Start(r) ==
    /\ loop[r] = "down"
    /\ loop' = [loop EXCEPT ![r] = "polling"]
    /\ UNCHANGED <<queueVars, stopping, work, history>>

-----------------------------------------------------------------------------
Handle(r, m) ==
    \/ Discard(r, m) \/ HandleSucceeds(r, m) \/ HandleRaises(r, m)
    \/ _Delete(r, m) \/ DeleteRaises(r, m)

Next ==
    \/ \E m \in Messages : Send(m) \/ VisibilityTimeout(m) \/ DeadLetter(m)
    \/ \E r \in Replicas, batch \in Batches :
          Receive(r, batch) \/ ReceiveRaises(r, batch)
    \/ \E r \in Replicas, m \in Messages : Handle(r, m)
    \/ \E r \in Replicas : BatchDone(r) \/ Stop(r) \/ Exit(r) \/ Start(r)

Spec == Init /\ [][Next]_vars

\* Every call a handler makes has a timeout, a stopping replica exits, the
\* service replaces it, and a poll that finds a message over and over returns
\* it in the end.
Fairness ==
    /\ \A m \in Messages :
          /\ WF_vars(VisibilityTimeout(m))
          /\ SF_vars(DeadLetter(m))
          /\ SF_vars(\E r \in Replicas, batch \in Batches :
                        m \in batch /\ Receive(r, batch))
    /\ \A r \in Replicas :
          /\ WF_vars(BatchDone(r))
          /\ WF_vars(r \in stopping /\ Exit(r))
          /\ WF_vars(Start(r))
          /\ \A m \in Messages : WF_vars(Handle(r, m))

FairSpec == Spec /\ Fairness
-----------------------------------------------------------------------------
(* Properties *)

\* Type invariant.
TypeOK ==
    /\ stage \in [Messages -> {"unsent", "queued", "deleted", "dead"}]
    /\ hidden \in SUBSET Messages
    /\ received \in [Messages -> 0..MaxReceives]
    /\ loop \in [Replicas -> {"polling", "batch", "over", "dead", "down"}]
    /\ stopping \in SUBSET Replicas
    /\ work \in [Replicas -> [Messages -> Work]]
    /\ handled \in SUBSET Messages
    /\ outlasted \in SUBSET Messages

\* Two replicas never handle the same message at once unless its handling
\* outlasted the visibility timeout (config.py:28): not when a handler raised,
\* a receive or a delete failed, or a replica was stopped and replaced.
OneHandlerAtATime ==
    \A m \in Messages \ outlasted : \A r, s \in Replicas :
        Holds(r, m) /\ Holds(s, m) => r = s

\* "Messages are deleted only after successful handling, so transient failures
\* are retried and poison messages eventually land in the configured dead-letter
\* queue" (sqs_worker.py:6-8): the safety of it.
AtLeastOnce == INSTANCE Delivery

DeliversAtLeastOnce == AtLeastOnce!Spec

Settles(m) == stage[m] = "queued" ~> stage[m] \in {"deleted", "dead"}

\* The same sentence's liveness: every message is deleted or dead-lettered in
\* the end, although replicas stop, start and are killed, provided that the poll
\* loop of some replica survives.
MessagesSettle ==
    []<>(\E r \in Replicas : loop[r] # "dead") => \A m \in Messages : Settles(m)

\* "Continuously long-polls the webhook queue" (sqs_worker.py:3), without that
\* proviso.
PollsContinuously == \A m \in Messages : Settles(m)
=============================================================================

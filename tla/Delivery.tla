------------------------------ MODULE Delivery ------------------------------
(***************************************************************************)
(* What the queue and the agent's workers promise of a message together:    *)
(* at-least-once handling.  The docstring of agent/app/sqs_worker.py states *)
(* it; SqsWorker implements it.  Gatekeeper (a verdict sent may arrive any  *)
(* number of times) and ApprovalGraph (a click is received at most          *)
(* maxReceiveCount times, and left for retry) assume no more than this.     *)
(***************************************************************************)
EXTENDS Naturals

CONSTANTS Messages, Malformed, MaxReceives

VARIABLES stage,       \* of each message
          received,    \* how often it was received
          handled      \* messages of which some handling succeeded

vars == <<stage, received, handled>>

Init ==
    /\ stage = [m \in Messages |-> "unsent"]
    /\ received = [m \in Messages |-> 0]
    /\ handled = {}

Send(m) ==
    /\ stage[m] = "unsent"
    /\ stage' = [stage EXCEPT ![m] = "queued"]
    /\ UNCHANGED <<received, handled>>

Receive(batch) ==
    /\ \A m \in batch : stage[m] = "queued" /\ received[m] < MaxReceives
    /\ received' = [m \in Messages |-> IF m \in batch THEN received[m] + 1
                                       ELSE received[m]]
    /\ UNCHANGED <<stage, handled>>

\* A handling may end after its message has left the queue.
Handle(m) ==
    /\ received[m] > 0 /\ m \notin Malformed
    /\ handled' = handled \cup {m}
    /\ UNCHANGED <<stage, received>>

\* Only what was handled is deleted, or can never be.
Delete(m) ==
    /\ stage[m] = "queued"
    /\ \/ m \in handled
       \/ m \in Malformed /\ received[m] > 0
    /\ stage' = [stage EXCEPT ![m] = "deleted"]
    /\ UNCHANGED <<received, handled>>

\* Only a message that had all its tries is given up.
DeadLetter(m) ==
    /\ stage[m] = "queued" /\ received[m] = MaxReceives
    /\ stage' = [stage EXCEPT ![m] = "dead"]
    /\ UNCHANGED <<received, handled>>

Next ==
    \/ \E m \in Messages : Send(m) \/ Handle(m) \/ Delete(m) \/ DeadLetter(m)
    \/ \E batch \in SUBSET Messages : Receive(batch)

Spec == Init /\ [][Next]_vars
=============================================================================

-------------------------- MODULE SqsWorkerProofs ---------------------------
(***************************************************************************)
(* Proofs about SqsWorker, for any number of messages, replicas, receives   *)
(* and batch size: two replicas handle a message at once only if one of     *)
(* them outlasted the visibility timeout, and the workers deliver at least  *)
(* once (they implement Delivery).                                         *)
(*                                                                         *)
(* OneHandlerAtATime is not inductive: that nobody else receives a message  *)
(* which is held follows from its being hidden, and that it is still in the *)
(* queue from its holder being the only one that can delete it.            *)
(***************************************************************************)
EXTENDS SqsWorker, TLAPS

\* A message somebody handles in time is in the queue and hidden.
HeldIsHidden ==
    \A r \in Replicas, m \in Messages \ outlasted :
        Holds(r, m) => stage[m] = "queued" /\ m \in hidden

\* What is handled was received; what is about to be deleted was handled, or
\* never can be.
HeldWasReceived ==
    \A r \in Replicas, m \in Messages :
        /\ Holds(r, m) => received[m] > 0
        /\ work[r][m].pc = "deleting" => m \in handled \cup Malformed

IInv ==
    /\ TypeOK
    /\ HeldIsHidden
    /\ OneHandlerAtATime
    /\ HeldWasReceived

-----------------------------------------------------------------------------
\* The initial state: nothing was sent, nobody holds anything.
LEMMA InitInv == Init => IInv
<1> SUFFICES ASSUME Init PROVE IInv
  OBVIOUS
<1> USE DEF Init
<1>1. TypeOK
  BY SqsAssumption DEF TypeOK, SqsAssumption, NoWork, Work
<1>2. \A r \in Replicas, m \in Messages : ~Holds(r, m) /\ work[r][m].pc = "none"
  BY DEF Holds, NoWork
<1> QED
  BY <1>1, <1>2 DEF IInv, HeldIsHidden, OneHandlerAtATime, HeldWasReceived

\* What a step that touches at most the work of one replica on one message, and
\* only forward, keeps: the shape of every _handle step.
Progress(r, m, w) ==
    /\ r \in Replicas /\ m \in Messages /\ w \in Work
    /\ Holds(r, m)
    /\ work' = [work EXCEPT ![r][m] = w]

\* The work such a step leaves.
LEMMA ProgressWork ==
  ASSUME TypeOK, NEW r \in Replicas, NEW m \in Messages, NEW w,
         Progress(r, m, w)
  PROVE  /\ work' \in [Replicas -> [Messages -> Work]]
         /\ work'[r][m] = w
         /\ \A s \in Replicas, n \in Messages :
               s # r \/ n # m => work'[s][n] = work[s][n]
BY DEF TypeOK, Progress

-----------------------------------------------------------------------------
(* The queue *)

\* Send: the message was not in the queue, so nobody holds it in time.
LEMMA SendInv ==
  ASSUME IInv, NEW x \in Messages, Send(x)
  PROVE  IInv'
<1> USE DEF IInv
<1>1. TypeOK'
  BY DEF TypeOK, Send, history
<1> QED
  BY <1>1 DEF TypeOK, HeldIsHidden, OneHandlerAtATime, HeldWasReceived, Holds,
              Send, history

\* VisibilityTimeout: whoever holds the message has outlasted it.
LEMMA VisibilityTimeoutInv ==
  ASSUME IInv, NEW x \in Messages, VisibilityTimeout(x)
  PROVE  IInv'
<1> USE DEF IInv
<1>1. TypeOK'
  BY DEF TypeOK, VisibilityTimeout
<1>2. HeldIsHidden'
  BY DEF HeldIsHidden, Holds, VisibilityTimeout
<1>3. OneHandlerAtATime'
  BY DEF OneHandlerAtATime, Holds, VisibilityTimeout
<1>4. HeldWasReceived'
  BY DEF HeldWasReceived, Holds, VisibilityTimeout
<1> QED
  BY <1>1, <1>2, <1>3, <1>4

\* DeadLetter: a visible message is held by nobody that is in time.
LEMMA DeadLetterInv ==
  ASSUME IInv, NEW x \in Messages, DeadLetter(x)
  PROVE  IInv'
<1> USE DEF IInv
<1>1. TypeOK'
  BY DEF TypeOK, DeadLetter, history
<1>2. HeldIsHidden'
  BY DEF TypeOK, HeldIsHidden, Holds, DeadLetter, Visible, history
<1>3. OneHandlerAtATime' /\ HeldWasReceived'
  BY DEF OneHandlerAtATime, HeldWasReceived, Holds, DeadLetter, history
<1> QED
  BY <1>1, <1>2, <1>3

-----------------------------------------------------------------------------
(* SqsWorker.run *)

\* What receiving a batch does to the queue.
LEMMA TakeFacts ==
  ASSUME TypeOK, NEW batch \in SUBSET Messages, Take(batch)
  PROVE  /\ received' \in [Messages -> 0..MaxReceives]
         /\ hidden' \in SUBSET Messages
         /\ \A m \in Messages : received'[m] >= received[m]
         /\ \A m \in batch : /\ received'[m] = received[m] + 1
                             /\ stage[m] = "queued" /\ m \notin hidden
                             /\ m \in hidden'
         /\ hidden \subseteq hidden'
BY SqsAssumption DEF SqsAssumption, TypeOK, Take, Receivable, Visible, Hide

\* Receive: the batch was visible, so nobody else holds any of it in time.
LEMMA ReceiveInv ==
  ASSUME IInv, NEW r \in Replicas, NEW batch \in Batches, Receive(r, batch)
  PROVE  IInv'
<1> USE DEF IInv
<1>1. batch \in SUBSET Messages /\ Take(batch)
  BY DEF Batches, Receive
<1> HIDE DEF IInv
<1>2. TypeOK
  BY DEF IInv
<1>3. /\ received' \in [Messages -> 0..MaxReceives]
      /\ hidden' \in SUBSET Messages
      /\ \A m \in Messages : received'[m] >= received[m]
      /\ \A m \in batch : /\ received'[m] = received[m] + 1
                          /\ stage[m] = "queued" /\ m \notin hidden
                          /\ m \in hidden'
      /\ hidden \subseteq hidden'
  BY <1>1, <1>2, TakeFacts
<1>4. /\ \A m \in Messages :
            work'[r][m] = IF m \in batch THEN [pc |-> "handling",
                                               receipt |-> received'[m]]
                          ELSE NoWork
      /\ \A s \in Replicas \ {r} : work'[s] = work[s]
      /\ work' \in [Replicas -> [Messages -> Work]]
  BY <1>2, <1>3, SqsAssumption
     DEF Receive, TypeOK, Work, NoWork, SqsAssumption
<1>5. TypeOK'
  BY <1>2, <1>3, <1>4 DEF TypeOK, Receive, history
<1>6. \A m \in Messages \ outlasted, s \in Replicas :
         m \in batch => ~Holds(s, m)
  BY <1>3 DEF IInv, HeldIsHidden
<1>5a. \A m \in Messages :
          work'[r][m].pc = IF m \in batch THEN "handling" ELSE "none"
  <2> TAKE m \in Messages
  <2>1. CASE m \in batch
    <3>1. work'[r][m] = [pc |-> "handling", receipt |-> received'[m]]
      BY <1>4, <2>1
    <3> QED
      BY <2>1, <3>1
  <2>2. CASE m \notin batch
    <3>1. work'[r][m] = NoWork
      BY <1>4, <2>2
    <3> QED
      BY <2>2, <3>1 DEF NoWork
  <2> QED
    BY <2>1, <2>2
<1>7. /\ \A s \in Replicas \ {r}, m \in Messages : Holds(s, m)' <=> Holds(s, m)
      /\ \A m \in Messages : Holds(r, m)' <=> m \in batch
  BY <1>4, <1>5a DEF Holds
<1>8. HeldIsHidden' /\ OneHandlerAtATime'
  BY <1>3, <1>6, <1>7
     DEF IInv, HeldIsHidden, OneHandlerAtATime, Receive, history
<1>9. HeldWasReceived'
  <2> SUFFICES ASSUME NEW s \in Replicas, NEW m \in Messages
               PROVE  /\ Holds(s, m)' => received'[m] > 0
                      /\ work'[s][m].pc = "deleting" =>
                            m \in handled' \cup Malformed
    BY DEF HeldWasReceived
  <2>1. handled' = handled
    BY DEF Receive, history
  <2>2. received[m] \in Nat /\ received'[m] \in Nat
    BY <1>2, <1>3, SqsAssumption DEF TypeOK, SqsAssumption
  <2>3. CASE s = r
    <3>1. m \in batch => received'[m] > 0
      BY <1>3, <2>2, <1>2, SqsAssumption DEF TypeOK, SqsAssumption
    <3> QED
      BY <1>5a, <1>7, <2>3, <3>1
  <2>4. CASE s # r
    BY <1>3, <1>4, <1>7, <2>1, <2>2, <2>4 DEF IInv, HeldWasReceived
  <2> QED
    BY <2>3, <2>4
<1> QED
  BY <1>5, <1>8, <1>9 DEF IInv

\* ReceiveRaises hides the batch, and nobody holds it.
LEMMA ReceiveRaisesInv ==
  ASSUME IInv, NEW r \in Replicas, NEW batch \in Batches,
         ReceiveRaises(r, batch)
  PROVE  IInv'
<1>1. batch \in SUBSET Messages /\ Take(batch)
  BY DEF Batches, ReceiveRaises
<1>2. TypeOK
  BY DEF IInv
<1>3. /\ received' \in [Messages -> 0..MaxReceives]
      /\ hidden' \in SUBSET Messages
      /\ \A m \in Messages : received'[m] >= received[m]
      /\ hidden \subseteq hidden'
  BY <1>1, <1>2, TakeFacts
<1>4. TypeOK'
  BY <1>2, <1>3 DEF TypeOK, ReceiveRaises, PollsAgain, history
<1>5. HeldIsHidden' /\ OneHandlerAtATime'
  BY <1>3 DEF IInv, HeldIsHidden, OneHandlerAtATime, Holds, ReceiveRaises, history
<1>6. \A m \in Messages : received[m] > 0 => received'[m] > 0
  BY <1>2, <1>3, SqsAssumption DEF TypeOK, SqsAssumption
<1>7. HeldWasReceived'
  BY <1>6 DEF IInv, HeldWasReceived, Holds, ReceiveRaises, history
<1> QED
  BY <1>4, <1>5, <1>7 DEF IInv

\* The steps that leave the queue and every _handle alone.
LEMMA BatchDoneInv ==
  ASSUME IInv, NEW r \in Replicas, BatchDone(r)
  PROVE  IInv'
BY DEF IInv, TypeOK, HeldIsHidden, OneHandlerAtATime, HeldWasReceived, Holds,
       BatchDone, PollsAgain, queueVars, history

-----------------------------------------------------------------------------
(* SqsWorker._handle *)

\* The steps before the delete: the message stays held, or is let go.
LEMMA HandlingInv ==
  ASSUME IInv, NEW r \in Replicas, NEW x \in Messages,
         Discard(r, x) \/ HandleSucceeds(r, x) \/ HandleRaises(r, x)
  PROVE  IInv'
<1>1. TypeOK
  BY DEF IInv
<1>2. work[r][x].pc = "handling" /\ Holds(r, x)
  BY DEF Discard, HandleSucceeds, HandleRaises, Holds
<1>3. /\ work[r][x] \in Work
      /\ NoWork \in Work
  BY <1>1, SqsAssumption DEF TypeOK, Work, NoWork, SqsAssumption
<1>4. PICK v \in Work :
        /\ Progress(r, x, v)
        /\ v.pc = "deleting" => x \in handled' \cup Malformed
  <2>1. CASE Discard(r, x) \/ HandleSucceeds(r, x)
    <3>1. [work[r][x] EXCEPT !.pc = "deleting"] \in Work
      BY <1>3 DEF Work
    <3>2. x \in handled' \cup Malformed
      BY <2>1 DEF Discard, HandleSucceeds
    <3>3. Progress(r, x, [work[r][x] EXCEPT !.pc = "deleting"])
      BY <1>1, <1>2, <2>1, <3>1
         DEF Progress, Discard, HandleSucceeds, ToDelete, TypeOK
    <3> QED
      BY <3>1, <3>2, <3>3
  <2>2. CASE HandleRaises(r, x)
    BY <1>2, <1>3, <2>2 DEF Progress, HandleRaises, LeftForRetry, Settle, NoWork
  <2> QED
    BY <2>1, <2>2
<1>5. /\ work' \in [Replicas -> [Messages -> Work]]
      /\ work'[r][x] = v
      /\ \A s \in Replicas, n \in Messages :
            s # r \/ n # x => work'[s][n] = work[s][n]
  BY <1>1, <1>4, ProgressWork
<1>6. /\ UNCHANGED <<stage, hidden, received, loop, stopping, outlasted>>
      /\ handled \subseteq handled' /\ handled' \subseteq Messages
  BY <1>1 DEF Discard, HandleSucceeds, HandleRaises, queueVars, history, TypeOK
<1>7. TypeOK'
  BY <1>1, <1>5, <1>6 DEF TypeOK
<1>8. \A s \in Replicas, n \in Messages : Holds(s, n)' => Holds(s, n)
  BY <1>2, <1>5 DEF Holds
<1>9. HeldIsHidden' /\ OneHandlerAtATime'
  BY <1>6, <1>8 DEF IInv, HeldIsHidden, OneHandlerAtATime
<1>10. HeldWasReceived'
  <2> SUFFICES ASSUME NEW s \in Replicas, NEW n \in Messages
               PROVE  /\ Holds(s, n)' => received'[n] > 0
                      /\ work'[s][n].pc = "deleting" =>
                            n \in handled' \cup Malformed
    BY DEF HeldWasReceived
  <2>1. Holds(s, n)' => received'[n] > 0
    BY <1>6, <1>8 DEF IInv, HeldWasReceived
  <2>2. CASE s = r /\ n = x
    BY <1>4, <1>5, <2>1, <2>2
  <2>3. CASE s # r \/ n # x
    BY <1>5, <1>6, <2>1, <2>3 DEF IInv, HeldWasReceived
  <2> QED
    BY <2>2, <2>3
<1> QED
  BY <1>7, <1>9, <1>10 DEF IInv

\* The delete, done, without effect or refused: nobody else holds the message
\* in time, so it may leave the queue.
LEMMA DeletingInv ==
  ASSUME IInv, NEW r \in Replicas, NEW x \in Messages,
         _Delete(r, x) \/ DeleteRaises(r, x)
  PROVE  IInv'
<1>1. TypeOK
  BY DEF IInv
<1>2. NoWork \in Work
  BY SqsAssumption DEF Work, NoWork, SqsAssumption
<1>3. Progress(r, x, NoWork)
  BY <1>2 DEF Progress, Holds, _Delete, DeleteRaises, Settle
<1>4. /\ work' \in [Replicas -> [Messages -> Work]]
      /\ work'[r][x] = NoWork
      /\ \A s \in Replicas, n \in Messages :
            s # r \/ n # x => work'[s][n] = work[s][n]
  BY <1>1, <1>3, ProgressWork
<1>5. /\ UNCHANGED <<received, stopping, handled, outlasted>>
      /\ loop' \in [Replicas -> {"polling", "batch", "over", "dead", "down"}]
      /\ \/ UNCHANGED <<stage, hidden>>
         \/ /\ stage' = [stage EXCEPT ![x] = "deleted"]
            /\ hidden' = hidden \ {x}
  BY <1>1 DEF _Delete, DeleteRaises, DeleteMessage, TypeOK, history
<1>6. TypeOK'
  BY <1>1, <1>4, <1>5 DEF TypeOK
<1>7. /\ ~Holds(r, x)'
      /\ \A s \in Replicas, n \in Messages :
            /\ Holds(s, n)' => Holds(s, n) /\ (s # r \/ n # x)
            /\ s # r \/ n # x => work'[s][n] = work[s][n]
      /\ Holds(r, x)
  BY <1>3, <1>4 DEF Holds, NoWork, Progress
<1>8. OneHandlerAtATime'
  BY <1>5, <1>7 DEF IInv, OneHandlerAtATime
<1>9. HeldIsHidden'
  <2> SUFFICES ASSUME NEW s \in Replicas, NEW n \in Messages \ outlasted,
                      Holds(s, n)'
               PROVE  stage'[n] = "queued" /\ n \in hidden'
    BY <1>5 DEF HeldIsHidden
  <2>1. Holds(s, n) /\ n # x
    BY <1>7 DEF IInv, OneHandlerAtATime
  <2>2. stage[n] = "queued" /\ n \in hidden
    BY <2>1 DEF IInv, HeldIsHidden
  <2> QED
    BY <1>1, <1>5, <2>1, <2>2 DEF TypeOK
<1>10. HeldWasReceived'
  <2> SUFFICES ASSUME NEW s \in Replicas, NEW n \in Messages
               PROVE  /\ Holds(s, n)' => received'[n] > 0
                      /\ work'[s][n].pc = "deleting" =>
                            n \in handled' \cup Malformed
    BY DEF HeldWasReceived
  <2>1. CASE s = r /\ n = x
    BY <1>4, <1>7, <2>1 DEF NoWork
  <2>2. CASE s # r \/ n # x
    BY <1>5, <1>7, <2>2 DEF IInv, HeldWasReceived
  <2> QED
    BY <2>1, <2>2
<1> QED
  BY <1>6, <1>8, <1>9, <1>10 DEF IInv

-----------------------------------------------------------------------------
(* lifespan *)

\* Stop and Start leave the queue and every _handle alone.
LEMMA StopStartInv ==
  ASSUME IInv, NEW r \in Replicas, Stop(r) \/ Start(r)
  PROVE  IInv'
BY DEF IInv, TypeOK, HeldIsHidden, OneHandlerAtATime, HeldWasReceived, Holds,
       Stop, Start, queueVars, history

\* Exit drops what the replica held; its messages stay hidden for a while.
LEMMA ExitInv ==
  ASSUME IInv, NEW r \in Replicas, Exit(r)
  PROVE  IInv'
<1>1. /\ work' = [work EXCEPT ![r] = [m \in Messages |-> NoWork]]
      /\ UNCHANGED <<stage, hidden, received, handled, outlasted>>
  BY DEF Exit, queueVars, history
<1>2. NoWork \in Work /\ TypeOK
  BY SqsAssumption DEF Work, NoWork, SqsAssumption, IInv
<1>3. TypeOK'
  BY <1>2 DEF TypeOK, Exit, queueVars, history
<1>4. \A s \in Replicas, m \in Messages :
         \/ work'[s][m] = work[s][m]
         \/ work'[s][m].pc = "none"
  BY <1>1, <1>2 DEF TypeOK, NoWork
<1> QED
  BY <1>1, <1>3, <1>4
     DEF IInv, HeldIsHidden, OneHandlerAtATime, HeldWasReceived, Holds

-----------------------------------------------------------------------------
\* Every step preserves the invariant.
LEMMA NextInv == IInv /\ [Next]_vars => IInv'
<1> SUFFICES ASSUME IInv, [Next]_vars PROVE IInv'
  OBVIOUS
<1>1. CASE UNCHANGED vars
  BY <1>1 DEF vars, IInv, TypeOK, HeldIsHidden, OneHandlerAtATime,
              HeldWasReceived, Holds
<1>2. ASSUME NEW m \in Messages, Send(m) \/ VisibilityTimeout(m) \/ DeadLetter(m)
      PROVE  IInv'
  BY <1>2, SendInv, VisibilityTimeoutInv, DeadLetterInv
<1>3. ASSUME NEW r \in Replicas, NEW batch \in Batches,
             Receive(r, batch) \/ ReceiveRaises(r, batch)
      PROVE  IInv'
  BY <1>3, ReceiveInv, ReceiveRaisesInv
<1>4. ASSUME NEW r \in Replicas, NEW m \in Messages, Handle(r, m)
      PROVE  IInv'
  BY <1>4, HandlingInv, DeletingInv DEF Handle
<1>5. ASSUME NEW r \in Replicas, BatchDone(r) \/ Stop(r) \/ Exit(r) \/ Start(r)
      PROVE  IInv'
  BY <1>5, BatchDoneInv, StopStartInv, ExitInv
<1> QED
  BY <1>1, <1>2, <1>3, <1>4, <1>5 DEF Next

\* The inductive invariant holds in every reachable state of the workers.
THEOREM Invariance == Spec => []IInv
<1>1. IInv /\ [Next]_vars => IInv'
  BY NextInv
<1> QED
  BY InitInv, <1>1, PTL DEF Spec

\* Every reachable state has the types SqsWorker declares.
THEOREM TypeCorrect == Spec => []TypeOK
<1>1. IInv => TypeOK
  BY DEF IInv
<1> QED
  BY Invariance, <1>1, PTL

\* A handler that was not overtaken by the visibility timeout is alone with its
\* message, whatever receives, deletes and replicas failed.
THEOREM HandlersAreExclusive == Spec => []OneHandlerAtATime
<1>1. IInv => OneHandlerAtATime
  BY DEF IInv
<1> QED
  BY Invariance, <1>1, PTL
-----------------------------------------------------------------------------
(* SqsWorker implements Delivery.  Its queue is the abstract one; what the    *)
(* workers do between a receive and a delete is a stutter or a Handle.        *)

\* An initial state of the workers is one of Delivery.
LEMMA InitRefines == Init => AtLeastOnce!Init
BY DEF Init, AtLeastOnce!Init

\* A delete that has an effect is of a message that was handled.
LEMMA DeletingRefines ==
  ASSUME IInv, NEW r \in Replicas, NEW m \in Messages,
         _Delete(r, m) \/ DeleteRaises(r, m)
  PROVE  AtLeastOnce!Delete(m) \/ UNCHANGED AtLeastOnce!vars
<1>1. UNCHANGED <<received, handled>>
  BY DEF _Delete, DeleteRaises, history
<1>2. /\ received[m] > 0
      /\ m \in handled \cup Malformed
  BY DEF IInv, HeldWasReceived, Holds, _Delete, DeleteRaises
<1>3. CASE /\ stage[m] = "queued"
           /\ stage' = [stage EXCEPT ![m] = "deleted"]
  BY <1>1, <1>2, <1>3 DEF AtLeastOnce!Delete
<1>4. CASE UNCHANGED stage
  BY <1>1, <1>4 DEF AtLeastOnce!vars
<1> QED
  BY <1>3, <1>4 DEF _Delete, DeleteRaises, DeleteMessage

\* Every step of the workers is a step of Delivery or a stutter.
LEMMA StepRefines ==
  IInv /\ [Next]_vars => [AtLeastOnce!Next]_(AtLeastOnce!vars)
<1> SUFFICES ASSUME IInv, [Next]_vars
             PROVE  AtLeastOnce!Next \/ UNCHANGED AtLeastOnce!vars
  OBVIOUS
<1>1. CASE UNCHANGED vars
  BY <1>1 DEF vars, AtLeastOnce!vars
<1>2. ASSUME NEW m \in Messages, Send(m)
      PROVE  AtLeastOnce!Send(m)
  BY <1>2 DEF Send, AtLeastOnce!Send, history
<1>3. ASSUME NEW m \in Messages, VisibilityTimeout(m)
      PROVE  UNCHANGED AtLeastOnce!vars
  BY <1>3 DEF VisibilityTimeout, AtLeastOnce!vars
<1>4. ASSUME NEW m \in Messages, DeadLetter(m)
      PROVE  AtLeastOnce!DeadLetter(m)
  BY <1>4 DEF DeadLetter, Visible, AtLeastOnce!DeadLetter, history
<1>5. ASSUME NEW r \in Replicas, NEW batch \in Batches,
             Receive(r, batch) \/ ReceiveRaises(r, batch)
      PROVE  batch \in SUBSET Messages /\ AtLeastOnce!Receive(batch)
  <2>1. batch \in SUBSET Messages
    BY DEF Batches
  <2>2. Take(batch) /\ UNCHANGED <<stage, handled>>
    BY <1>5 DEF Receive, ReceiveRaises, history
  <2> QED
    BY <2>1, <2>2 DEF Take, Receivable, Visible, AtLeastOnce!Receive
<1>6. ASSUME NEW r \in Replicas, NEW m \in Messages,
             Discard(r, m) \/ HandleRaises(r, m)
      PROVE  UNCHANGED AtLeastOnce!vars
  BY <1>6 DEF Discard, HandleRaises, queueVars, history, AtLeastOnce!vars
<1>7. ASSUME NEW r \in Replicas, NEW m \in Messages, HandleSucceeds(r, m)
      PROVE  AtLeastOnce!Handle(m)
  <2>1. received[m] > 0
    BY <1>7 DEF IInv, HeldWasReceived, Holds, HandleSucceeds
  <2> QED
    BY <1>7, <2>1 DEF HandleSucceeds, queueVars, AtLeastOnce!Handle
<1>8. ASSUME NEW r \in Replicas,
             BatchDone(r) \/ Stop(r) \/ Exit(r) \/ Start(r)
      PROVE  UNCHANGED AtLeastOnce!vars
  BY <1>8 DEF BatchDone, Stop, Exit, Start, queueVars, history,
              AtLeastOnce!vars
<1> QED
  BY <1>1, <1>2, <1>3, <1>4, <1>5, <1>6, <1>7, <1>8, DeletingRefines
     DEF Next, Handle, AtLeastOnce!Next

\* The docstring's promise for any number of messages and replicas: what is
\* deleted was handled, what is dead-lettered had all its receives.
THEOREM ImplementsDelivery == Spec => DeliversAtLeastOnce
<1>1. Init => AtLeastOnce!Init
  BY InitRefines
<1>2. IInv /\ [Next]_vars => [AtLeastOnce!Next]_(AtLeastOnce!vars)
  BY StepRefines
<1> QED
  BY <1>1, <1>2, Invariance, PTL
     DEF Spec, DeliversAtLeastOnce, AtLeastOnce!Spec

-----------------------------------------------------------------------------
(* What Delivery comes to, and the workers with it. *)

\* What left the queue was handled, is malformed and was looked at, or had all its
\* receives; and nothing is handled that was not received.
Settled ==
    /\ \A m \in Messages :
          /\ stage[m] = "deleted" => m \in handled \/ (m \in Malformed /\ received[m] > 0)
          /\ stage[m] = "dead" => received[m] = MaxReceives
    /\ \A m \in handled : m \in Messages /\ m \notin Malformed /\ received[m] > 0

SettledInv ==
    /\ DOMAIN stage = Messages /\ received \in [Messages -> 0..MaxReceives]
    /\ Settled

LEMMA DeliverySettles ==
  SettledInv /\ [AtLeastOnce!Next]_(AtLeastOnce!vars) => SettledInv'
<1> SUFFICES ASSUME SettledInv, [AtLeastOnce!Next]_(AtLeastOnce!vars) PROVE SettledInv'
  OBVIOUS
<1> USE DEF SettledInv, Settled
<1>0. MaxReceives \in Nat
  BY SqsAssumption DEF SqsAssumption
<1>1. CASE UNCHANGED AtLeastOnce!vars
  BY <1>1 DEF AtLeastOnce!vars
<1>2. ASSUME NEW m \in Messages, AtLeastOnce!Send(m) PROVE SettledInv'
  BY <1>2 DEF AtLeastOnce!Send
<1>3. ASSUME NEW m \in Messages, AtLeastOnce!Handle(m) PROVE SettledInv'
  BY <1>3 DEF AtLeastOnce!Handle
<1>4. ASSUME NEW m \in Messages, AtLeastOnce!Delete(m) PROVE SettledInv'
  BY <1>4 DEF AtLeastOnce!Delete
<1>5. ASSUME NEW m \in Messages, AtLeastOnce!DeadLetter(m) PROVE SettledInv'
  BY <1>5 DEF AtLeastOnce!DeadLetter
<1>6. ASSUME NEW batch \in SUBSET Messages, AtLeastOnce!Receive(batch) PROVE SettledInv'
  <2>1. /\ UNCHANGED <<stage, handled>>
        /\ received' = [m \in Messages |-> IF m \in batch THEN received[m] + 1
                                           ELSE received[m]]
        /\ \A m \in batch : stage[m] = "queued" /\ received[m] < MaxReceives
    BY <1>6 DEF AtLeastOnce!Receive
  <2>2. received' \in [Messages -> 0..MaxReceives]
    BY <1>0, <2>1
  <2>3. \A m \in Messages : /\ received[m] > 0 => received'[m] > 0
                            /\ stage[m] = "dead" => received'[m] = received[m]
    BY <2>1
  <2> QED
    BY <2>1, <2>2, <2>3
<1> QED
  BY <1>1, <1>2, <1>3, <1>4, <1>5, <1>6 DEF AtLeastOnce!Next

\* No message is lost in a crash, a stop or a failed delete: what is gone from the
\* queue was handled by some replica, could never be, or is in the dead-letter
\* queue after maxReceiveCount receives.
THEOREM NothingIsLost == Spec => []Settled
<1>1. AtLeastOnce!Init => SettledInv
  BY SqsAssumption DEF AtLeastOnce!Init, SettledInv, Settled, SqsAssumption
<1>2. SettledInv /\ [AtLeastOnce!Next]_(AtLeastOnce!vars) => SettledInv'
  BY DeliverySettles
<1>3. SettledInv => Settled
  BY DEF SettledInv
<1> QED
  BY <1>1, <1>2, <1>3, ImplementsDelivery, PTL
     DEF DeliversAtLeastOnce, AtLeastOnce!Spec

\* What left the queue stays what it became: a late replica neither deletes a
\* message that was dead-lettered nor brings a deleted one back.
SettledForGood ==
    \A m \in Messages : stage[m] \in {"deleted", "dead"} => stage'[m] = stage[m]

THEOREM SettledStaysSettled == Spec => [][SettledForGood]_stage
<1>1. SettledInv /\ [AtLeastOnce!Next]_(AtLeastOnce!vars) => [SettledForGood]_stage
  BY DEF SettledInv, SettledForGood, AtLeastOnce!Next, AtLeastOnce!vars,
         AtLeastOnce!Send, AtLeastOnce!Receive, AtLeastOnce!Handle,
         AtLeastOnce!Delete, AtLeastOnce!DeadLetter
<1>2. AtLeastOnce!Init => SettledInv
  BY SqsAssumption DEF AtLeastOnce!Init, SettledInv, Settled, SqsAssumption
<1> QED
  BY <1>1, <1>2, DeliverySettles, ImplementsDelivery, PTL
     DEF DeliversAtLeastOnce, AtLeastOnce!Spec
=============================================================================

------------------------ MODULE ReconciliationProofs ------------------------
(***************************************************************************)
(* Proofs about Reconciliation, for any number of runs, executions, tool    *)
(* turns, deliveries and aborts: the runs and Odoo's gate implement         *)
(* WriteGate, an answer is applied once and a rejection never written, and  *)
(* the reply under a proposal is true.                                     *)
(*                                                                         *)
(* The invariant follows an execution from its checkpoint to its write: the *)
(* decision it acts on is one that managers sent to its run, and as long as *)
(* the executions of the run did not overlap, the checkpoint says where it  *)
(* is.  A second invariant counts the writes against the executions that    *)
(* were cut short.                                                         *)
(***************************************************************************)
EXTENDS Reconciliation, TLAPS

Active(h) == exec[h].pc # "idle"

Notifying == {"notify", "post", "noted"}

Decided(r) == thread[r].next \in {"apply", "end"}

\* A task that is not committed was not decided.
TaskOK == task.state = "absent" => task.decision = "undecided"

\* An execution.  Before its proposal is posted nobody can resume its run.  The
\* decision it was resumed with is one of the answers.  Undisturbed, it and the
\* checkpoint of its run agree.
ExecOK(h) ==
    LET e == exec[h]
        t == thread[e.run]
    IN  Active(h) =>
        /\ e.run \in Runs /\ e.run < nextRun
        /\ e.pc \in Investigating =>
              e.run \notin posted /\ (e.pc # "gather" => t.next = e.pc)
        /\ e.pc \in {"investigate", "tools"} => t.loops <= MaxToolLoops
        /\ e.pc \notin Applying => ~e.saved /\ e.outcome = "none"
        /\ e.pc \in Notifying /\ e.run \notin disturbed => t.next = "notify"
        /\ e.pc \in Applying \cup {"checked"} => e.decision \in answers[e.run]
        /\ e.pc \in {"write", "retry"} => e.decision = "approve"
        /\ e.pc \in Applying /\ e.run \notin disturbed =>
              IF e.saved THEN Decided(e.run) /\ t.decision = e.decision
                         ELSE t.next = "await_decision"
        /\ e.outcome = "applied" => writes[e.run] > 0
        /\ e.outcome = "rejected" => e.decision = "reject"

\* Two executions of one run overlap.
Apart == \A g, h \in Handlers :
    (g # h /\ Active(g) /\ Active(h) /\ exec[g].run = exec[h].run)
    => exec[h].run \in disturbed

\* An execution that has sent a decision to Odoo, and not checkpointed it yet.
Pending(r, d) == \E h \in Handlers :
    /\ exec[h].pc \in Applying \ {"apply"} /\ exec[h].run = r
    /\ ~exec[h].saved /\ exec[h].decision = d

\* What was sent to Odoo for an undisturbed run is in its checkpoint, is about to
\* be, or the checkpoint has expired.
Committed(r, d) ==
    \/ Decided(r) /\ thread[r].decision = d
    \/ thread[r].next = "none"
    \/ Pending(r, d)

RunOK(r) ==
    /\ r >= nextRun => r \notin posted
    /\ r \notin posted =>
          answers[r] = {} /\ r \notin disturbed /\ reply[r] = "none"
    /\ writes[r] > 0 => "approve" \in answers[r]
    /\ IF Decided(r) THEN thread[r].decision \in answers[r]
                     ELSE thread[r].decision = "undecided"
    /\ r \notin disturbed /\ writes[r] > 0 => Committed(r, "approve")
    /\ r \notin disturbed /\ reply[r] = "rejected" =>
          writes[r] = 0 /\ Committed(r, "reject")
    /\ reply[r] = "applied" => writes[r] > 0

IInv ==
    /\ TypeOK
    /\ TaskOK
    /\ Apart
    /\ \A h \in Handlers : ExecOK(h)
    /\ \A r \in Runs : RunOK(r)

-----------------------------------------------------------------------------
(* What an undisturbed execution knows *)

\* Another execution of the run of h is a disturbance.
LEMMA Alone ==
    ASSUME IInv, NEW h \in Handlers, Active(h), exec[h].run \notin disturbed,
           NEW d, Pending(exec[h].run, d)
    PROVE  ~exec[h].saved /\ exec[h].decision = d
BY DEF IInv, Apart, Active, Pending, Applying

\* What was sent to Odoo for the run is what its execution applies.
LEMMA Agrees ==
    ASSUME IInv, NEW h \in Handlers, exec[h].pc \in Applying,
           exec[h].run \notin disturbed, NEW d, Committed(exec[h].run, d)
    PROVE  exec[h].decision = d
<1>1. Active(h)
    BY DEF Active, Applying
<1>2. IF exec[h].saved
      THEN Decided(exec[h].run) /\ thread[exec[h].run].decision = exec[h].decision
      ELSE thread[exec[h].run].next = "await_decision"
    BY <1>1 DEF IInv, ExecOK
<1>3. CASE Pending(exec[h].run, d)
    BY <1>1, <1>3, Alone
<1>4. CASE ~Pending(exec[h].run, d)
    BY <1>2, <1>4 DEF Committed, Decided
<1> QED BY <1>3, <1>4

\* No state after the first call to Odoo is forgotten.
LEMMA Remembered ==
    ASSUME IInv, NEW h \in Handlers, exec[h].pc \in Applying \ {"apply"},
           exec[h].run \notin disturbed
    PROVE  Committed(exec[h].run, exec[h].decision)
BY DEF IInv, ExecOK, Committed, Pending, Active, Applying

-----------------------------------------------------------------------------
(* One step of one execution *)

\* What a step of the execution h leaves alone.
Frame(h) ==
    LET r == exec[h].run
    IN  /\ nextRun' = nextRun /\ answers' = answers
        /\ \A g \in Handlers \ {h} : exec'[g] = exec[g]
        /\ exec'[h].pc = "idle" \/ exec'[h].run = r
        /\ \A s \in Runs \ {r} : /\ thread'[s] = thread[s]
                                 /\ reply'[s] = reply[s]
                                 /\ writes'[s] = writes[s]
        /\ writes'[r] >= writes[r]
        /\ posted' \in {posted, posted \cup {r}}
        /\ disturbed' \in {disturbed, disturbed \cup {r}}

\* It is enough to look at the execution and its run.  Other executions of the
\* run make it disturbed, and little is claimed of a disturbed run.
LEMMA OneExecution ==
    ASSUME IInv, NEW h \in Handlers, Active(h), Frame(h),
           NEW r \in Runs, r = exec[h].run,
           TypeOK', TaskOK', ExecOK(h)', RunOK(r)'
    PROVE  IInv'
<1>1. r \in Runs /\ r = exec[h].run
    OBVIOUS
<1>2. Apart'
    BY DEF IInv, Apart, Active, Frame
<1>3. ASSUME NEW g \in Handlers PROVE ExecOK(g)'
    <2>1. CASE g = h
        BY <2>1
    <2>2. CASE g # h /\ ~Active(g)
        BY <2>2 DEF ExecOK, Active, Frame
    <2>3. CASE g # h /\ Active(g) /\ exec[g].run = r
        <3>1. r \in disturbed /\ r \in posted
            BY <1>1, <2>3 DEF IInv, Apart, RunOK
        <3>2. r \in disturbed' /\ r \in posted'
            BY <3>1 DEF Frame
        <3>3. exec'[g] = exec[g] /\ exec[g].pc \notin Investigating
            BY <2>3, <3>1 DEF Frame, IInv, ExecOK
        <3>4. writes'[r] >= writes[r] /\ writes'[r] \in Nat /\ writes[r] \in Nat
            BY <1>1 DEF Frame, IInv, TypeOK
        <3> QED BY <1>1, <2>3, <3>2, <3>3, <3>4
                DEF ExecOK, Active, Investigating, Notifying, Applying, IInv, Frame
    <2>4. CASE g # h /\ Active(g) /\ exec[g].run # r
        <3> DEFINE s == exec[g].run
        <3>1. s \in Runs /\ s # r /\ exec'[g] = exec[g]
            BY <2>4 DEF IInv, ExecOK, Frame
        <3>2. /\ thread'[s] = thread[s] /\ writes'[s] = writes[s]
              /\ s \in posted' <=> s \in posted
              /\ s \in disturbed' <=> s \in disturbed
            BY <3>1 DEF Frame
        <3> QED BY <2>4, <3>1, <3>2
                DEF ExecOK, Active, Decided, IInv, Frame
    <2> QED BY <2>1, <2>2, <2>3, <2>4
<1>4. ASSUME NEW s \in Runs PROVE RunOK(s)'
    <2>1. CASE s = r
        BY <2>1
    <2>2. CASE s # r
        <3>1. /\ thread'[s] = thread[s] /\ writes'[s] = writes[s]
              /\ reply'[s] = reply[s]
              /\ s \in posted' <=> s \in posted
              /\ s \in disturbed' <=> s \in disturbed
            BY <2>2 DEF Frame
        <3>2. ASSUME NEW d, Pending(s, d) PROVE Pending(s, d)'
            BY <2>2, <3>2 DEF Pending, Frame
        <3>3. ASSUME NEW d, Committed(s, d) PROVE Committed(s, d)'
            BY <3>1, <3>2, <3>3 DEF Committed, Decided
        <3> QED BY <3>1, <3>3 DEF RunOK, Decided, IInv, Frame
    <2> QED BY <2>1, <2>2
<1> QED BY <1>2, <1>3, <1>4 DEF IInv

\* The records an idle slot and an unknown thread hold are well-typed.
LEMMA NullRecords ==
    /\ Idle \in Exec
    /\ NoThread \in Thread
BY ReconciliationAssumption DEF Idle, Exec, NoThread, Thread, Outcomes, Proposals

\* An execution at a node is active, and its run is one that was accepted.
LEMMA ActiveRun ==
    ASSUME IInv, NEW h \in Handlers, Active(h)
    PROVE  /\ exec[h].run \in Runs /\ exec[h].run < nextRun
           /\ exec[h] \in Exec /\ thread[exec[h].run] \in Thread
BY DEF IInv, ExecOK, TypeOK

\* Names for what a step of the execution h finds.
Finds(h, r, e, t) ==
    /\ Active(h)
    /\ e = exec[h] /\ r = exec[h].run /\ t = thread[r]
    /\ r < nextRun

\* The nodes before the proposal is posted: nobody has answered the run, and it
\* has done nothing.
LEMMA InvestigationInv ==
    ASSUME IInv, NEW h \in Handlers,
           NEW r \in Runs, NEW e \in Exec, NEW t \in Thread, Finds(h, r, e, t),
           Gather(h) \/ Investigate(h) \/ CallTools(h) \/ Propose(h)
    PROVE  IInv'
<1>1. Active(h) /\ e.pc \in Investigating /\ e.pc # "idle"
    BY DEF Gather, Investigate, CallTools, Propose, Active, At, Investigating, Finds
<1>2. r = exec[h].run /\ e = exec[h] /\ t = thread[r] /\ r < nextRun
    BY DEF Finds
<1>3. /\ r \notin posted /\ r \notin disturbed /\ answers[r] = {}
      /\ reply[r] = "none" /\ writes[r] = 0
    <2>1. r \notin posted
        BY <1>1, <1>2 DEF IInv, ExecOK
    <2>2. answers[r] = {} /\ r \notin disturbed /\ reply[r] = "none"
        BY <1>2, <2>1 DEF IInv, RunOK
    <2>3. writes[r] \in Nat /\ ~(writes[r] > 0)
        BY <1>2, <2>2 DEF IInv, RunOK, TypeOK
    <2> QED BY <2>1, <2>2, <2>3
<1>4. PICK node \in {"investigate", "tools", "propose", "notify"},
           state \in Thread :
        /\ exec' = [exec EXCEPT ![h].pc = node]
        /\ thread' = [thread EXCEPT ![r] = state]
        /\ state.next = node /\ state.decision = "undecided"
        /\ node \in {"investigate", "tools"} => state.loops <= MaxToolLoops
    <2>1. t.loops \in 0..(MaxToolLoops + 1) /\ t.decision = "undecided"
        <3>1. t.decision = "undecided"
            BY <1>2, <1>3 DEF IInv, RunOK
        <3> QED BY <1>2, <3>1 DEF Thread
    <2>2. CASE Gather(h)
        <3> DEFINE state == [NoThread EXCEPT !.next = "investigate"]
        <3>1. state \in Thread /\ state.next = "investigate"
              /\ state.decision = "undecided" /\ state.loops <= MaxToolLoops
            BY ReconciliationAssumption, NullRecords DEF NoThread, Thread
        <3>2. /\ exec' = [exec EXCEPT ![h].pc = "investigate"]
              /\ thread' = [thread EXCEPT ![r] = state]
            BY <1>2, <2>2 DEF Gather, GoTo, Checkpoint
        <3> HIDE DEF state
        <3> QED BY <3>1, <3>2
    <2>3. CASE Investigate(h)
        <3>1. PICK n \in {"tools", "propose"} :
                /\ n = "tools" => Offered(t.loops)
                /\ exec' = [exec EXCEPT ![h].pc = n]
                /\ thread' = [thread EXCEPT ![r] =
                                [t EXCEPT !.next = n, !.loops = t.loops + 1]]
            BY <1>2, <2>3 DEF Investigate, GoTo, Checkpoint, Counted
        <3> DEFINE new == [t EXCEPT !.next = n, !.loops = t.loops + 1]
        <3>2. t.loops <= MaxToolLoops
            BY <1>1, <1>2, <2>3 DEF IInv, ExecOK, Investigate, At
        <3>3. t.loops + 1 \in 0..(MaxToolLoops + 1)
            BY <2>1, <3>2, ReconciliationAssumption
        <3>4. new \in Thread /\ new.next = n
              /\ new.decision = "undecided" /\ new.loops = t.loops + 1
            BY <2>1, <3>3 DEF Thread
        <3>5. n = "tools" => new.loops <= MaxToolLoops
            BY <2>1, <3>1, <3>4, ReconciliationAssumption DEF Offered
        <3>6. thread' = [thread EXCEPT ![r] = new]
            BY <3>1
        <3> HIDE DEF new
        <3> QED BY <3>1, <3>4, <3>5, <3>6
    <2>4. CASE CallTools(h)
        <3> DEFINE state == [t EXCEPT !.next = "investigate"]
        <3>1. t.loops <= MaxToolLoops
            BY <1>1, <1>2, <2>4 DEF IInv, ExecOK, CallTools, At
        <3>2. state \in Thread /\ state.next = "investigate"
              /\ state.decision = "undecided" /\ state.loops <= MaxToolLoops
            BY <1>2, <2>1, <3>1 DEF Thread
        <3>3. /\ exec' = [exec EXCEPT ![h].pc = "investigate"]
              /\ thread' = [thread EXCEPT ![r] = state]
            BY <1>2, <2>4 DEF CallTools, GoTo, Checkpoint
        <3> HIDE DEF state
        <3> QED BY <3>2, <3>3
    <2>5. CASE Propose(h)
        <3>1. PICK p \in Proposals :
                thread' = [thread EXCEPT ![r] =
                             [t EXCEPT !.next = "notify", !.proposal = p]]
            BY <1>2, <2>5 DEF Propose, Checkpoint
        <3> DEFINE state == [t EXCEPT !.next = "notify", !.proposal = p]
        <3>2. state \in Thread /\ state.next = "notify"
              /\ state.decision = "undecided"
            BY <1>2, <2>1 DEF Thread
        <3>3. exec' = [exec EXCEPT ![h].pc = "notify"]
            BY <1>2, <2>5 DEF Propose, GoTo
        <3> HIDE DEF state
        <3> QED BY <3>1, <3>2, <3>3 DEF state
    <2> QED BY <2>2, <2>3, <2>4, <2>5
<1>5. UNCHANGED <<odooVars, slack, history>>
    BY DEF Gather, Investigate, CallTools, Propose
<1>6. /\ exec'[h] = [e EXCEPT !.pc = node]
      /\ thread'[r] = state
      /\ exec' \in [Handlers -> Exec] /\ thread' \in [Runs -> Thread]
    BY <1>2, <1>4 DEF IInv, TypeOK, Exec
<1>7. Frame(h)
    BY <1>2, <1>4, <1>5, <1>6 DEF Frame, odooVars, slack, history, IInv, TypeOK, Exec
<1>8. TypeOK' /\ TaskOK'
    BY <1>5, <1>6 DEF TypeOK, TaskOK, IInv, odooVars, slack, history
<1>9. e.pc \notin Applying /\ ~e.saved /\ e.outcome = "none"
    BY <1>1, <1>2 DEF Investigating, Applying, IInv, ExecOK
<1>10. ExecOK(h)'
    <2>1. /\ exec'[h].pc = node /\ exec'[h].run = r
          /\ exec'[h].saved = e.saved /\ exec'[h].outcome = e.outcome
          /\ node # "gather" /\ node \notin Applying /\ node # "checked"
        BY <1>2, <1>6 DEF Exec, Applying
    <2> QED BY <1>2, <1>3, <1>4, <1>5, <1>6, <1>9, <2>1
            DEF ExecOK, Investigating, Notifying, Applying, odooVars, slack, history
<1>11. RunOK(r)'
    BY <1>2, <1>3, <1>4, <1>5, <1>6
       DEF RunOK, Decided, odooVars, slack, history
<1> QED BY <1>1, <1>2, <1>7, <1>8, <1>10, <1>11, OneExecution

\* What the calls to Odoo leave of the task.
LEMMA TaskWrites ==
    ASSUME task \in TaskRow
    PROVE  /\ AiOps!RegisteredTask(task) \in TaskRow
           /\ AiOps!RegisteredTask(task).state = "pending_approval"
           /\ [task EXCEPT !.state = "failed"] \in TaskRow
           /\ [task EXCEPT !.state = "failed"].state = "failed"
           /\ AiOps!DispatchedTask(task, TRUE) \in TaskRow
           /\ AiOps!DispatchedTask(task, TRUE).state = "running"
           /\ \A d \in Decisions : /\ AiOps!DecidedTask(task, d) \in TaskRow
                                   /\ AiOps!DecidedTask(task, d).state = "done"
BY DEF TaskRow, Decisions, AiOps!States, AiOps!Decisions, AiOps!RegisteredTask,
       AiOps!DispatchedTask, AiOps!DecidedTask

\* An execution that moves on without touching the checkpoints, the writes or the
\* answers, and has not sent the decision yet, or had sent it before.
LEMMA NodeInv ==
    ASSUME IInv, NEW h \in Handlers,
           NEW r \in Runs, NEW e \in Exec, NEW t \in Thread, Finds(h, r, e, t),
           NEW new \in Exec, exec' = [exec EXCEPT ![h] = new],
           new = Idle \/ new.run = r,
           e.pc \in Applying \ {"apply"} /\ ~e.saved =>
              /\ new.pc \in Applying \ {"apply"}
              /\ new.decision = e.decision /\ ~new.saved,
           task' \in TaskRow, TaskOK', ExecOK(h)',
           posted' \in {posted, posted \cup {r}},
           UNCHANGED <<nextRun, writes, thread, answers, reply, history>>
    PROVE  IInv'
<1>1. Active(h) /\ r = exec[h].run /\ e = exec[h] /\ t = thread[r] /\ r < nextRun
    BY DEF Finds
<1>2. exec \in [Handlers -> Exec]
    BY DEF IInv, TypeOK
<1>3. /\ exec'[h] = new
      /\ \A g \in Handlers \ {h} : exec'[g] = exec[g]
    BY <1>2
<1>4. TypeOK'
    BY <1>2 DEF IInv, TypeOK, history
<1>5. Frame(h)
    BY <1>1, <1>3 DEF Frame, history, Idle, IInv, TypeOK
<1>6. ASSUME NEW d, Pending(r, d) PROVE Pending(r, d)'
    <2>1. PICK g \in Handlers :
            /\ exec[g].pc \in Applying \ {"apply"} /\ exec[g].run = r
            /\ ~exec[g].saved /\ exec[g].decision = d
        BY <1>6 DEF Pending
    <2>2. CASE g # h
        BY <1>3, <2>1, <2>2 DEF Pending
    <2>3. CASE g = h
        <3>1. new.pc \in Applying \ {"apply"} /\ new.run = r
            BY <1>1, <2>1, <2>3 DEF Idle, Applying
        <3> QED BY <1>1, <1>3, <2>1, <2>3, <3>1 DEF Pending
    <2> QED BY <2>2, <2>3
<1>7. ASSUME NEW d, Committed(r, d) PROVE Committed(r, d)'
    BY <1>6, <1>7 DEF Committed, Decided
<1>8. r \notin posted' => r \notin posted
    OBVIOUS
<1>9. RunOK(r)'
    <2>1. RunOK(r)
        BY DEF IInv
    <2>2. ~(r >= nextRun)
        BY <1>1 DEF IInv, TypeOK, Runs
    <2> QED BY <1>7, <1>8, <2>1, <2>2 DEF RunOK, Decided, history
<1> QED BY <1>1, <1>4, <1>5, <1>9, OneExecution DEF IInv

\* notify, up to the pause.
LEMMA NotifyInv ==
    ASSUME IInv, NEW h \in Handlers,
           NEW r \in Runs, NEW e \in Exec, NEW t \in Thread, Finds(h, r, e, t),
           Register(h) \/ PostProposal(h)
    PROVE  IInv'
<1>1. e = exec[h] /\ r = exec[h].run /\ t = thread[r] /\ e.pc \in {"notify", "post"}
    BY DEF Finds, Register, PostProposal, At
<1>2. task \in TaskRow /\ TaskOK
    BY DEF IInv, TypeOK
<1>3. PICK node \in {"post", "noted"} :
        exec' = [exec EXCEPT ![h] = [e EXCEPT !.pc = node]]
    BY <1>1 DEF Register, PostProposal, GoTo
<1> DEFINE new == [e EXCEPT !.pc = node]
<1>4. /\ new \in Exec /\ new.run = r /\ new.pc = node
      /\ new.saved = e.saved /\ new.outcome = e.outcome
    BY <1>1, <1>3 DEF Exec
<1>5. exec' = [exec EXCEPT ![h] = new] /\ exec'[h] = new
    BY <1>3 DEF IInv, TypeOK
<1>6. task' \in TaskRow /\ TaskOK'
    BY <1>2, TaskWrites DEF Register, PostProposal, TaskOK, odooVars
<1>7. /\ posted' \in {posted, posted \cup {r}}
      /\ UNCHANGED <<nextRun, writes, thread, answers, reply, history>>
    BY <1>1 DEF Register, PostProposal, odooVars, slack
<1> HIDE DEF new
<1>8. ExecOK(h)'
    BY <1>1, <1>4, <1>5, <1>7
       DEF ExecOK, IInv, Finds, Active, Investigating, Notifying, Applying, history
<1>9. e.pc \notin Applying
    BY <1>1 DEF Applying
<1> QED BY <1>4, <1>5, <1>6, <1>7, <1>8, <1>9, NodeInv

\* The checkpoint says where a resumed execution goes on.
LEMMA ResumedInv ==
    ASSUME IInv, NEW h \in Handlers,
           NEW r \in Runs, NEW e \in Exec, NEW t \in Thread, Finds(h, r, e, t),
           \/ ResumeAtNotify(h) \/ ResumeAtDecision(h)
           \/ ResumeAtApply(h) \/ ResumeAtEnd(h)
    PROVE  IInv'
<1>1. e = exec[h] /\ r = exec[h].run /\ t = thread[r] /\ e.pc = "checked"
    BY DEF Finds, ResumeAtNotify, ResumeAtDecision, ResumeAtApply, ResumeAtEnd, At
<1>2. task' \in TaskRow /\ TaskOK'
    BY DEF ResumeAtNotify, ResumeAtDecision, ResumeAtApply, ResumeAtEnd, odooVars,
           IInv, TypeOK, TaskOK
<1>3. UNCHANGED <<nextRun, writes, thread, posted, answers, reply, history>>
    BY DEF ResumeAtNotify, ResumeAtDecision, ResumeAtApply, ResumeAtEnd,
           odooVars, slack
<1>4. /\ ~e.saved /\ e.outcome = "none" /\ e.decision \in answers[r]
      /\ e.pc \notin Applying
    BY <1>1 DEF IInv, ExecOK, Finds, Applying
<1>5. RunOK(r)
    BY DEF IInv
<1>6. PICK new \in Exec :
        /\ exec' = [exec EXCEPT ![h] = new]
        /\ \/ new = Idle
           \/ /\ new.run = r /\ new.pc = "notify" /\ t.next = "notify"
              /\ ~new.saved
           \/ /\ new.run = r /\ new.pc = "apply" /\ t.next = "await_decision"
              /\ new.decision = e.decision /\ ~new.saved
           \/ /\ new.run = r /\ new.pc = "apply" /\ Decided(r)
              /\ new.decision = t.decision /\ new.saved
        /\ new.outcome = "none"
    <2>1. CASE ResumeAtNotify(h)
        <3> DEFINE new == [e EXCEPT !.pc = "notify", !.decision = "undecided"]
        <3>1. /\ new \in Exec /\ new.run = r /\ new.pc = "notify" /\ ~new.saved
              /\ new.outcome = "none"
            BY <1>1, <1>4 DEF Exec
        <3>2. exec' = [exec EXCEPT ![h] = new] /\ t.next = "notify"
            BY <1>1, <2>1 DEF ResumeAtNotify
        <3> QED BY <3>1, <3>2
    <2>2. CASE ResumeAtDecision(h)
        <3> DEFINE new == [e EXCEPT !.pc = "apply"]
        <3>1. /\ new \in Exec /\ new.run = r /\ new.pc = "apply" /\ ~new.saved
              /\ new.outcome = "none" /\ new.decision = e.decision
            BY <1>1, <1>4 DEF Exec
        <3>2. exec' = [exec EXCEPT ![h] = new] /\ t.next = "await_decision"
            BY <1>1, <2>2 DEF ResumeAtDecision, GoTo
        <3> QED BY <3>1, <3>2
    <2>3. CASE ResumeAtApply(h)
        <3> DEFINE new == [e EXCEPT !.pc = "apply", !.decision = t.decision,
                                    !.saved = TRUE]
        <3>1. /\ new \in Exec /\ new.run = r /\ new.pc = "apply" /\ new.saved
              /\ new.outcome = "none" /\ new.decision = t.decision
            BY <1>1, <1>4 DEF Exec, Thread
        <3>2. exec' = [exec EXCEPT ![h] = new] /\ Decided(r)
            BY <1>1, <2>3 DEF ResumeAtApply, StoredDecision, Decided
        <3> QED BY <3>1, <3>2
    <2>4. CASE ResumeAtEnd(h)
        BY <2>4, NullRecords DEF ResumeAtEnd, Idle
    <2> QED BY <2>1, <2>2, <2>3, <2>4
<1>7. exec'[h] = new
    BY <1>6 DEF IInv, TypeOK
<1>8. ExecOK(h)'
    BY <1>1, <1>3, <1>4, <1>5, <1>6, <1>7
       DEF ExecOK, RunOK, Decided, Finds, Active, Idle, Investigating, Notifying,
           Applying, history
<1> QED BY <1>2, <1>3, <1>4, <1>6, <1>7, <1>8, NodeInv

\* apply, where it neither writes stock nor replies: what it knows is kept.
LEMMA ApplyInv ==
    ASSUME IInv, NEW h \in Handlers,
           NEW r \in Runs, NEW e \in Exec, NEW t \in Thread, Finds(h, r, e, t),
           \/ SetApproval(h) \/ SetApprovalRaises(h)
           \/ RecordForHuman(h) \/ FlagFailed(h)
    PROVE  IInv'
<1>1. /\ e = exec[h] /\ r = exec[h].run /\ t = thread[r]
      /\ e.pc \in {"apply", "write", "flag"}
    BY DEF Finds, SetApproval, SetApprovalRaises, RecordForHuman, FlagFailed, At
<1>2. e.decision \in Decisions /\ e.decision \in answers[r]
    BY <1>1, ReconciliationAssumption
       DEF IInv, ExecOK, Finds, Applying, TypeOK
<1>3. task' \in TaskRow /\ TaskOK'
    <2>1. task \in TaskRow /\ TaskOK
        BY DEF IInv, TypeOK
    <2> QED BY <1>1, <1>2, <2>1, TaskWrites
            DEF SetApproval, SetApprovalRaises, RecordForHuman, FlagFailed, TaskOK,
                odooVars
<1>4. UNCHANGED <<nextRun, writes, thread, posted, answers, reply, history>>
    BY DEF SetApproval, SetApprovalRaises, RecordForHuman, FlagFailed, slack, odooVars
<1>5. PICK pc \in {"write", "confirm", "closing"}, outcome \in Outcomes :
        /\ exec' = [exec EXCEPT ![h] = [e EXCEPT !.pc = pc, !.outcome = outcome]]
        /\ pc = "write" => e.decision = "approve"
        /\ outcome = "applied" => e.outcome = "applied"
        /\ outcome = "rejected" => e.decision = "reject"
    <2>1. /\ e.outcome \in Outcomes
          /\ e.outcome = "rejected" => e.decision = "reject"
          /\ \A pc : [e EXCEPT !.pc = pc]
                     = [e EXCEPT !.pc = pc, !.outcome = e.outcome]
        BY <1>1 DEF IInv, ExecOK, Finds, Exec
    <2>2. CASE SetApproval(h) /\ e.decision = "approve"
        <3>1. exec' = [exec EXCEPT ![h] = [e EXCEPT !.pc = "write"]]
            BY <1>1, <2>2 DEF SetApproval
        <3> QED BY <2>1, <2>2, <3>1
    <2>3. CASE SetApproval(h) /\ e.decision # "approve"
        <3>1. exec' = [exec EXCEPT ![h] = [e EXCEPT !.pc = "confirm",
                                                    !.outcome = "rejected"]]
            BY <1>1, <2>3 DEF SetApproval
        <3>2. e.decision = "reject"
            BY <1>2, <2>3 DEF Decisions, AiOps!Decisions
        <3> QED BY <3>1, <3>2 DEF Outcomes
    <2>4. CASE SetApprovalRaises(h)
        <3>1. exec' = [exec EXCEPT ![h] = [e EXCEPT !.pc = "closing"]]
            BY <1>1, <2>4 DEF SetApprovalRaises, GoTo
        <3> QED BY <2>1, <3>1
    <2>5. CASE RecordForHuman(h)
        BY <1>1, <2>5 DEF RecordForHuman, Outcomes
    <2>6. CASE FlagFailed(h)
        <3>1. exec' = [exec EXCEPT ![h] = [e EXCEPT !.pc = "confirm"]]
            BY <1>1, <2>6 DEF FlagFailed, GoTo
        <3> QED BY <2>1, <3>1
    <2> QED BY <2>2, <2>3, <2>4, <2>5, <2>6
<1> DEFINE new == [e EXCEPT !.pc = pc, !.outcome = outcome]
<1>6. /\ new \in Exec /\ new.run = r /\ new.pc = pc /\ new.outcome = outcome
      /\ new.saved = e.saved /\ new.decision = e.decision
    BY <1>1 DEF Exec
<1>7. exec' = [exec EXCEPT ![h] = new] /\ exec'[h] = new
    BY <1>5 DEF IInv, TypeOK
<1> HIDE DEF new
<1>8. ExecOK(h)'
    BY <1>1, <1>2, <1>4, <1>5, <1>6, <1>7
       DEF ExecOK, IInv, Decided, Finds, Active, Investigating, Notifying, Applying,
           history
<1>9. pc \in Applying \ {"apply"}
    BY DEF Applying
<1> QED BY <1>3, <1>4, <1>6, <1>7, <1>8, <1>9, NodeInv

\* The write of a stock: the run was approved, and the checkpoint says so or is
\* about to.
LEMMA WriteInv ==
    ASSUME IInv, NEW h \in Handlers,
           NEW r \in Runs, NEW e \in Exec, NEW t \in Thread, Finds(h, r, e, t),
           WriteStock(h) \/ WriteRaises(h)
    PROVE  IInv'
<1>1. /\ e = exec[h] /\ r = exec[h].run /\ t = thread[r] /\ r < nextRun
      /\ Active(h) /\ e.pc \in {"write", "retry"}
    BY DEF Finds, WriteStock, WriteRaises, WriteCalled, At
<1>2. /\ UNCHANGED <<task, nextRun, thread, posted, answers, reply, history>>
    BY DEF WriteStock, WriteRaises, slack
<1>3. /\ e.decision = "approve" /\ "approve" \in answers[r]
      /\ e.pc \in Applying \ {"apply"}
    BY <1>1 DEF IInv, ExecOK, Applying
<1>4. writes' \in {writes, [writes EXCEPT ![r] = @ + 1]}
    BY <1>1 DEF WriteStock, WriteRaises, StockWritten
<1>5. /\ writes' \in [Runs -> Nat]
      /\ \A s \in Runs \ {r} : writes'[s] = writes[s]
      /\ writes[r] \in Nat /\ writes'[r] \in Nat /\ writes'[r] >= writes[r]
    BY <1>4 DEF IInv, TypeOK
<1>6. PICK pc \in {"confirm", "retry", "flag"}, outcome \in Outcomes :
        /\ exec' = [exec EXCEPT ![h] = [e EXCEPT !.pc = pc, !.outcome = outcome]]
        /\ outcome = "applied" => writes'[r] > 0
        /\ outcome # "rejected"
    <2>1. /\ e.outcome \in Outcomes /\ e.outcome # "rejected"
          /\ e.outcome = "applied" => writes'[r] > 0
          /\ \A pc : [e EXCEPT !.pc = pc]
                     = [e EXCEPT !.pc = pc, !.outcome = e.outcome]
        <3>1. e.outcome = "applied" => writes[r] > 0
            BY <1>1 DEF IInv, ExecOK
        <3>2. e.outcome # "rejected"
            BY <1>1, <1>3 DEF IInv, ExecOK
        <3>3. /\ e.outcome \in Outcomes
              /\ \A pc : [e EXCEPT !.pc = pc]
                         = [e EXCEPT !.pc = pc, !.outcome = e.outcome]
            BY DEF Exec
        <3>4. e.outcome = "applied" => writes'[r] > 0
            BY <1>5, <3>1
        <3> QED BY <3>2, <3>3, <3>4
    <2>2. CASE WriteStock(h)
        <3>1. writes'[r] > 0
            BY <1>1, <1>5, <2>2 DEF WriteStock, StockWritten, IInv, TypeOK
        <3> QED BY <1>1, <2>2, <3>1 DEF WriteStock, Outcomes
    <2>3. CASE WriteRaises(h) /\ exec' = [exec EXCEPT ![h].pc = "retry"]
        <3>1. exec' = [exec EXCEPT ![h] = [e EXCEPT !.pc = "retry"]]
            BY <1>1, <2>3
        <3> QED BY <2>1, <3>1
    <2>4. CASE WriteRaises(h) /\ exec' # [exec EXCEPT ![h].pc = "retry"]
        BY <1>1, <2>4 DEF WriteRaises, GoTo, FailedOutcome, Outcomes
    <2> QED BY <2>2, <2>3, <2>4
<1> DEFINE new == [e EXCEPT !.pc = pc, !.outcome = outcome]
<1>7. /\ new \in Exec /\ new.run = r /\ new.pc = pc /\ new.outcome = outcome
      /\ new.saved = e.saved /\ new.decision = e.decision
    BY <1>1 DEF Exec
<1>8. /\ exec' = [exec EXCEPT ![h] = new] /\ exec'[h] = new
      /\ exec' \in [Handlers -> Exec]
      /\ \A g \in Handlers \ {h} : exec'[g] = exec[g]
    BY <1>6, <1>7 DEF IInv, TypeOK
<1> HIDE DEF new
<1>9. ExecOK(h)'
    BY <1>1, <1>2, <1>3, <1>6, <1>7, <1>8
       DEF ExecOK, IInv, Decided, Active, Investigating, Notifying, Applying, history
<1>10. TypeOK' /\ TaskOK'
    BY <1>2, <1>5, <1>8 DEF IInv, TypeOK, TaskOK, history
<1>11. Frame(h)
    BY <1>1, <1>2, <1>5, <1>7, <1>8 DEF Frame, history
<1>12. r \notin disturbed =>
         /\ Committed(r, "approve")'
         /\ reply[r] # "rejected"
    <2>1. r \notin disturbed =>
            IF e.saved THEN Decided(r) /\ t.decision = "approve"
                       ELSE t.next = "await_decision"
        BY <1>1, <1>3 DEF IInv, ExecOK
    <2>2. ~e.saved => Pending(r, "approve")'
        BY <1>3, <1>7, <1>8 DEF Pending, Applying
    <2>3. r \notin disturbed => ~Committed(r, "reject")
        BY <1>1, <1>3, Agrees
    <2> QED BY <1>1, <1>2, <2>1, <2>2, <2>3 DEF Committed, Decided, IInv, RunOK
<1>13. RunOK(r)'
    BY <1>2, <1>3, <1>5, <1>12 DEF RunOK, Decided, IInv, history
<1> QED BY <1>1, <1>9, <1>10, <1>11, <1>13, OneExecution

\* The reply: what it says of the stock is what the run did.
LEMMA ConfirmInv ==
    ASSUME IInv, NEW h \in Handlers,
           NEW r \in Runs, NEW e \in Exec, NEW t \in Thread, Finds(h, r, e, t),
           Confirm(h)
    PROVE  IInv'
<1>1. /\ e = exec[h] /\ r = exec[h].run /\ t = thread[r] /\ r < nextRun
      /\ Active(h) /\ e.pc = "confirm" /\ e.pc \in Applying \ {"apply"}
    BY DEF Finds, Confirm, At, Applying
<1>2. UNCHANGED <<task, nextRun, writes, thread, posted, answers, history>>
    BY DEF Confirm, odooVars
<1> DEFINE new == [e EXCEPT !.pc = "closing", !.outcome = "none"]
<1>3. /\ new \in Exec /\ new.run = r /\ new.pc = "closing" /\ new.outcome = "none"
      /\ new.saved = e.saved /\ new.decision = e.decision
    BY <1>1 DEF Exec, Outcomes
<1>4. /\ exec' = [exec EXCEPT ![h] = new] /\ exec'[h] = new
      /\ exec' \in [Handlers -> Exec]
      /\ \A g \in Handlers \ {h} : exec'[g] = exec[g]
    BY <1>1, <1>3 DEF Confirm, IInv, TypeOK
<1> HIDE DEF new
<1>5. /\ reply' \in {reply, [reply EXCEPT ![r] = e.outcome]}
      /\ reply' # reply => r \in posted
    BY <1>1 DEF Confirm
<1>6. /\ reply' \in [Runs -> Outcomes]
      /\ \A s \in Runs \ {r} : reply'[s] = reply[s]
      /\ reply'[r] \in {reply[r], e.outcome}
    BY <1>5 DEF IInv, TypeOK, Exec
<1>7. ExecOK(h)'
    BY <1>1, <1>2, <1>3, <1>4
       DEF ExecOK, IInv, Decided, Active, Investigating, Notifying, Applying, history
<1>8. TypeOK' /\ TaskOK'
    BY <1>2, <1>4, <1>6 DEF IInv, TypeOK, TaskOK, history
<1>9. Frame(h)
    BY <1>1, <1>2, <1>3, <1>4, <1>6 DEF Frame, history, IInv, TypeOK
<1>10. ASSUME NEW d, Pending(r, d) PROVE Pending(r, d)'
    <2>1. PICK g \in Handlers :
            /\ exec[g].pc \in Applying \ {"apply"} /\ exec[g].run = r
            /\ ~exec[g].saved /\ exec[g].decision = d
        BY <1>10 DEF Pending
    <2> QED BY <1>1, <1>3, <1>4, <2>1 DEF Pending, Applying
<1>11. ASSUME NEW d, Committed(r, d) PROVE Committed(r, d)'
    BY <1>2, <1>10, <1>11 DEF Committed, Decided
<1>12. ASSUME r \notin disturbed, e.outcome = "rejected"
       PROVE  writes[r] = 0 /\ Committed(r, "reject")
    <2>1. e.decision = "reject"
        BY <1>1, <1>12 DEF IInv, ExecOK
    <2>2. Committed(r, "reject")
        BY <1>1, <1>12, <2>1, Remembered
    <2>3. ~Committed(r, "approve")
        BY <1>1, <1>12, <2>1, Agrees
    <2> QED BY <1>12, <2>2, <2>3 DEF IInv, RunOK, TypeOK
<1>13. e.outcome = "applied" => writes[r] > 0
    BY <1>1 DEF IInv, ExecOK
<1>14. RunOK(r)'
    <2>1. RunOK(r)
        BY DEF IInv
    <2>2. reply'[r] # reply[r] => r \in posted
        BY <1>5
    <2> QED BY <1>2, <1>6, <1>11, <1>12, <1>13, <2>1, <2>2
            DEF RunOK, Decided, history
<1> QED BY <1>1, <1>7, <1>8, <1>9, <1>14, OneExecution

\* The checkpoints of the decision: before it, of it, and of the end.
LEMMA CheckpointInv ==
    ASSUME IInv, NEW h \in Handlers,
           NEW r \in Runs, NEW e \in Exec, NEW t \in Thread, Finds(h, r, e, t),
           Pause(h) \/ SaveDecision(h) \/ Finish(h)
    PROVE  IInv'
<1>1. /\ e = exec[h] /\ r = exec[h].run /\ t = thread[r] /\ r < nextRun
      /\ Active(h)
    BY DEF Finds
<1>2. UNCHANGED <<task, nextRun, writes, posted, answers, reply, history>>
    BY DEF Pause, SaveDecision, Finish, odooVars, slack
<1>3. e.pc \in Applying => e.decision \in Decisions /\ e.decision \in answers[r]
    BY <1>1, ReconciliationAssumption DEF IInv, ExecOK, TypeOK
<1>4. PICK new \in Exec, state \in Thread :
        /\ exec' = [exec EXCEPT ![h] = new]
        /\ thread' = [thread EXCEPT ![r] = state]
        /\ \/ /\ Pause(h) /\ new = Idle
              /\ state.next = "await_decision" /\ state.decision = "undecided"
           \/ /\ SaveDecision(h) /\ new = [e EXCEPT !.saved = TRUE]
              /\ state.next = "apply" /\ state.decision = e.decision
           \/ /\ Finish(h) /\ new = Idle
              /\ state.next = "end" /\ state.decision = e.decision
    <2>1. CASE Pause(h)
        <3> DEFINE state == [t EXCEPT !.next = "await_decision",
                                      !.decision = "undecided"]
        <3>1. state \in Thread /\ state.next = "await_decision"
              /\ state.decision = "undecided"
            BY DEF Thread
        <3> QED BY <1>1, <2>1, <3>1, NullRecords DEF Pause, Checkpoint
    <2>2. CASE SaveDecision(h)
        <3> DEFINE state == [t EXCEPT !.next = "apply", !.decision = e.decision]
                   new == [e EXCEPT !.saved = TRUE]
        <3>1. state \in Thread /\ state.next = "apply"
              /\ state.decision = e.decision
            BY <1>1, <1>3, <2>2 DEF Thread, SaveDecision
        <3>2. new \in Exec
            BY DEF Exec
        <3> QED BY <1>1, <2>2, <3>1, <3>2 DEF SaveDecision, Checkpoint
    <2>3. CASE Finish(h)
        <3> DEFINE state == [t EXCEPT !.next = "end", !.decision = e.decision]
        <3>1. e.pc \in Applying
            BY <1>1, <2>3 DEF Finish, At, Applying
        <3>2. state \in Thread /\ state.next = "end"
              /\ state.decision = e.decision
            BY <1>3, <3>1 DEF Thread
        <3> QED BY <1>1, <2>3, <3>2, NullRecords DEF Finish, Checkpoint
    <2> QED BY <2>1, <2>2, <2>3
<1>5. /\ exec'[h] = new /\ exec' \in [Handlers -> Exec]
      /\ \A g \in Handlers \ {h} : exec'[g] = exec[g]
      /\ thread'[r] = state /\ thread' \in [Runs -> Thread]
      /\ \A s \in Runs \ {r} : thread'[s] = thread[s]
    BY <1>4 DEF IInv, TypeOK
<1>6. new = Idle \/ new.run = r
    BY <1>1, <1>4 DEF Exec
<1>7. TypeOK' /\ TaskOK'
    BY <1>2, <1>5 DEF IInv, TypeOK, TaskOK, history
<1>8. Frame(h)
    BY <1>1, <1>2, <1>5, <1>6 DEF Frame, history, IInv, TypeOK, Idle
<1>9. CASE Pause(h)
    <2>1. /\ e.pc = "noted" /\ new = Idle
          /\ state.next = "await_decision" /\ state.decision = "undecided"
        BY <1>1, <1>4, <1>9 DEF Pause, SaveDecision, Finish, At, Applying
    <2>2. ExecOK(h)'
        BY <1>5, <2>1 DEF ExecOK, Active, Idle
    <2>3. r \notin disturbed => t.next = "notify"
        BY <1>1, <2>1 DEF IInv, ExecOK, Notifying
    <2>4. ASSUME r \notin disturbed, NEW d PROVE ~Pending(r, d)
        BY <1>1, <2>1, <2>4 DEF IInv, Apart, Active, Pending, Applying
    <2>5. ASSUME r \notin disturbed, NEW d PROVE ~Committed(r, d)
        BY <1>1, <2>3, <2>4, <2>5 DEF Committed, Decided
    <2>6. RunOK(r)'
        BY <1>2, <1>5, <2>1, <2>5 DEF RunOK, Decided, IInv, history
    <2> QED BY <1>1, <1>7, <1>8, <2>2, <2>6, OneExecution
<1>10. CASE ~Pause(h)
    <2>1. /\ e.pc \in Applying
          /\ state.next \in {"apply", "end"} /\ state.decision = e.decision
          /\ new = Idle \/ new = [e EXCEPT !.saved = TRUE]
        BY <1>1, <1>4, <1>10 DEF SaveDecision, Finish, At, Applying
    <2>2. ExecOK(h)'
        <3>1. CASE new = Idle
            BY <1>5, <3>1 DEF ExecOK, Active, Idle
        <3>2. CASE new = [e EXCEPT !.saved = TRUE]
            <4>1. /\ new.pc = e.pc /\ new.run = r /\ new.decision = e.decision
                  /\ new.saved /\ new.outcome = e.outcome
                BY <1>1, <3>2 DEF Exec
            <4> QED BY <1>1, <1>2, <1>5, <2>1, <4>1
                    DEF ExecOK, IInv, Decided, Active, Investigating, Notifying,
                        Applying, history
        <3> QED BY <2>1, <3>1, <3>2
    <2>3. ASSUME r \notin disturbed, NEW d, Committed(r, d)
          PROVE  Committed(r, d)'
        BY <1>1, <1>5, <2>1, <2>3, Agrees DEF Committed, Decided
    <2>4. RunOK(r)'
        BY <1>2, <1>3, <1>5, <2>1, <2>3 DEF RunOK, Decided, IInv, history
    <2> QED BY <1>1, <1>7, <1>8, <2>2, <2>4, OneExecution
<1> QED BY <1>9, <1>10

\* An execution that is cut short leaves what it did.
LEMMA AbortInv ==
    ASSUME IInv, NEW h \in Handlers,
           NEW r \in Runs, NEW e \in Exec, NEW t \in Thread, Finds(h, r, e, t),
           Abort(h)
    PROVE  IInv'
<1>1. /\ e = exec[h] /\ r = exec[h].run /\ t = thread[r] /\ r < nextRun
      /\ Active(h)
    BY DEF Finds
<1>2. UNCHANGED <<task, nextRun, writes, thread, posted, answers, reply>>
    BY DEF Abort, odooVars, slack
<1>3. /\ exec'[h] = Idle /\ exec' \in [Handlers -> Exec]
      /\ \A g \in Handlers \ {h} : exec'[g] = exec[g]
    BY NullRecords DEF Abort, IInv, TypeOK
<1>4. /\ disturbed' = IF e.pc \in Applying \ {"apply"} /\ ~e.saved
                      THEN disturbed \cup {r} ELSE disturbed
      /\ aborts' \in 0..MaxAborts /\ UNCHANGED deliveries
    BY <1>1, ReconciliationAssumption DEF Abort, IInv, TypeOK
<1>5. TypeOK' /\ TaskOK'
    BY <1>2, <1>3, <1>4 DEF IInv, TypeOK, TaskOK
<1>6. Frame(h)
    BY <1>1, <1>2, <1>3, <1>4 DEF Frame, Idle, IInv, TypeOK
<1>7. ExecOK(h)'
    BY <1>3 DEF ExecOK, Active, Idle
<1>8. ASSUME r \notin disturbed', NEW d, Pending(r, d) PROVE Pending(r, d)'
    BY <1>1, <1>3, <1>4, <1>8 DEF Pending
<1>9. ASSUME r \notin disturbed', NEW d, Committed(r, d) PROVE Committed(r, d)'
    BY <1>2, <1>8, <1>9 DEF Committed, Decided
<1>10. r \in disturbed' => r \in posted
    <2>1. e.pc \in Applying => r \in posted
        BY <1>1 DEF IInv, ExecOK, RunOK
    <2> QED BY <1>4, <2>1 DEF IInv, RunOK
<1>11. r \in disturbed => r \in disturbed'
    BY <1>4
<1>12. RunOK(r)'
    BY <1>2, <1>9, <1>10, <1>11 DEF RunOK, Decided, IInv
<1> QED BY <1>1, <1>5, <1>6, <1>7, <1>12, OneExecution

\* Whatever an execution does keeps the invariant.
LEMMA StepInv ==
    ASSUME IInv, NEW h \in Handlers, Step(h) \/ Abort(h)
    PROVE  IInv'
<1>1. Active(h)
    BY DEF Step, Abort, Active, At, Gather, Investigate, CallTools, Propose,
           Register, PostProposal, Pause, ResumeAtNotify, ResumeAtDecision,
           ResumeAtApply, ResumeAtEnd, SaveDecision, SetApproval,
           SetApprovalRaises, RecordForHuman, WriteStock, WriteRaises,
           WriteCalled, FlagFailed, Confirm, Finish, Applying
<1>2. PICK r \in Runs, e \in Exec, t \in Thread : Finds(h, r, e, t)
    BY <1>1, ActiveRun DEF Finds
<1> QED BY <1>2, InvestigationInv, NotifyInv, ResumedInv, ApplyInv, WriteInv,
           ConfirmInv, CheckpointInv, AbortInv DEF Step

-----------------------------------------------------------------------------
(* The steps of Odoo, of managers and of time *)

\* Only the task changes.
LEMMA TaskInv ==
    ASSUME IInv, task' \in TaskRow, TaskOK',
           UNCHANGED <<nextRun, thread, slack, writes, exec, history>>
    PROVE  IInv'
<1>1. TypeOK'
    BY DEF IInv, TypeOK, slack, history
<1>2. Apart'
    BY DEF IInv, Apart, Active, history
<1>3. ASSUME NEW h \in Handlers PROVE ExecOK(h)'
    BY DEF IInv, ExecOK, Active, Decided, slack, history
<1>4. ASSUME NEW r \in Runs PROVE RunOK(r)'
    BY DEF IInv, RunOK, Decided, Committed, Pending, slack, history
<1> QED BY <1>1, <1>2, <1>3, <1>4 DEF IInv

\* The commit of the task, a decision in its form, and the cron.
LEMMA OdooInv ==
    ASSUME IInv,
           CommitTask \/ ExpireStaleTask \/ \E d \in Decisions : OdooDecides(d)
    PROVE  IInv'
<1>1. task \in TaskRow
    BY DEF IInv, TypeOK
<1>2. task' \in TaskRow /\ task'.state # "absent"
    <2>1. CASE CommitTask
        BY <2>1 DEF CommitTask, TaskRow, AiOps!States
    <2>2. CASE ExpireStaleTask
        BY <1>1, <2>2 DEF ExpireStaleTask, AiOps!ExpiredTask, TaskRow, AiOps!States
    <2>3. CASE \E d \in Decisions : OdooDecides(d)
        BY <1>1, <2>3, TaskWrites DEF OdooDecides
    <2> QED BY <2>1, <2>2, <2>3
<1>3. UNCHANGED <<nextRun, thread, slack, writes, exec, history>>
    BY DEF CommitTask, ExpireStaleTask, OdooDecides
<1> QED BY <1>2, <1>3, TaskInv DEF TaskOK

\* A new run: nobody knows it yet.
LEMMA LaunchInv ==
    ASSUME IInv, NEW h \in Handlers, StartForProduct(h) \/ StartAgain(h)
    PROVE  IInv'
<1>1. /\ Launch(h)
      /\ UNCHANGED <<thread, slack, writes, history>>
    BY DEF StartForProduct, StartAgain
<1>2. task' \in TaskRow /\ TaskOK'
    <2>1. task \in TaskRow /\ TaskOK
        BY DEF IInv, TypeOK
    <2> QED BY <2>1, TaskWrites DEF StartForProduct, StartAgain, TaskOK
<1> DEFINE new == [Idle EXCEPT !.pc = "gather", !.run = nextRun]
<1>3. /\ new \in Exec /\ new.pc = "gather" /\ new.run = nextRun
      /\ ~new.saved /\ new.outcome = "none"
    BY <1>1, NullRecords DEF Idle, Exec, Launch
<1>4. /\ exec' = [exec EXCEPT ![h] = new] /\ nextRun' = nextRun + 1
      /\ nextRun \in Runs /\ ~Active(h)
    BY <1>1 DEF Launch, At, Active
<1> HIDE DEF new
<1>5. /\ exec'[h] = new /\ exec' \in [Handlers -> Exec]
      /\ \A g \in Handlers \ {h} : exec'[g] = exec[g]
    BY <1>3, <1>4 DEF IInv, TypeOK
<1>6. nextRun' \in 1..(MaxRuns + 1) /\ nextRun \in Nat
    BY <1>4, ReconciliationAssumption DEF Runs
<1>7. TypeOK'
    BY <1>1, <1>2, <1>5, <1>6 DEF IInv, TypeOK, slack, history
<1>8. \A g \in Handlers : Active(g) => exec[g].run # nextRun /\ exec[g].run \in Nat
    BY <1>6 DEF IInv, ExecOK, Runs
<1>9. Apart'
    BY <1>1, <1>3, <1>4, <1>5, <1>8 DEF IInv, Apart, Active, history
<1>10. ASSUME NEW g \in Handlers PROVE ExecOK(g)'
    <2>1. CASE g = h
        <3>1. nextRun \notin posted
            BY <1>4, <1>6 DEF IInv, RunOK
        <3> QED BY <1>1, <1>3, <1>4, <1>5, <1>6, <2>1, <3>1
                DEF ExecOK, Notifying, Applying, slack
    <2>2. CASE g # h
        <3>1. Active(g) => exec[g].run < nextRun'
            BY <1>4, <1>6, <1>8, <2>2 DEF IInv, ExecOK
        <3> QED BY <1>1, <1>5, <2>2, <3>1
                DEF IInv, ExecOK, Active, Decided, slack, history
    <2> QED BY <2>1, <2>2
<1>11. ASSUME NEW r \in Runs PROVE RunOK(r)'
    <2>1. ASSUME NEW d, Pending(r, d) PROVE Pending(r, d)'
        BY <1>4, <1>5, <2>1 DEF Pending, Active, Applying
    <2>2. ASSUME NEW d, Committed(r, d) PROVE Committed(r, d)'
        BY <1>1, <2>1, <2>2 DEF Committed, Decided
    <2>3. r >= nextRun' => r >= nextRun
        BY <1>4, <1>6 DEF Runs
    <2> QED BY <1>1, <2>2, <2>3 DEF IInv, RunOK, Decided, slack, history
<1> QED BY <1>2, <1>7, <1>9, <1>10, <1>11 DEF IInv

\* An answer more.
LEMMA AnswerInv ==
    ASSUME IInv, NEW r \in Runs, NEW d \in Decisions, ManagerAnswers(r, d)
    PROVE  IInv'
<1>1. /\ r \in posted /\ d \in Buttons
      /\ answers' = [answers EXCEPT ![r] = @ \cup {d}]
      /\ UNCHANGED <<task, nextRun, writes, thread, posted, reply, exec, history>>
    BY DEF ManagerAnswers, odooVars
<1>2. /\ answers' \in [Runs -> SUBSET Buttons]
      /\ \A s \in Runs : answers[s] \subseteq answers'[s]
      /\ \A s \in Runs : s # r => answers'[s] = answers[s]
    BY <1>1 DEF IInv, TypeOK
<1>3. TypeOK' /\ TaskOK'
    BY <1>1, <1>2 DEF IInv, TypeOK, TaskOK, history
<1>4. Apart'
    BY <1>1 DEF IInv, Apart, Active, history
<1>5. ASSUME NEW h \in Handlers PROVE ExecOK(h)'
    BY <1>1, <1>2 DEF IInv, ExecOK, Active, Decided, history
<1>6. ASSUME NEW s \in Runs PROVE RunOK(s)'
    <2>1. \A c : Committed(s, c)' <=> Committed(s, c)
        BY <1>1 DEF Committed, Decided, Pending
    <2> QED BY <1>1, <1>2, <2>1 DEF IInv, RunOK, Decided, history
<1> QED BY <1>3, <1>4, <1>5, <1>6 DEF IInv

\* A delivery: the run becomes disturbed if another execution of it is active.
LEMMA ResumeInv ==
    ASSUME IInv, NEW h \in Handlers, NEW r \in Runs, NEW d \in Decisions,
           Resume(h, r, d)
    PROVE  IInv'
<1> DEFINE new == [Idle EXCEPT !.pc = "checked", !.run = r, !.decision = d]
<1>1. /\ ~Active(h) /\ d \in answers[r]
      /\ exec' = [exec EXCEPT ![h] = new]
      /\ disturbed' = IF ExecutionsOf(r) # {} THEN disturbed \cup {r}
                      ELSE disturbed
      /\ UNCHANGED <<task, nextRun, writes, thread, posted, answers, reply>>
    BY DEF Resume, At, Active, ClickDecision, odooVars, slack
<1>2. deliveries' \in 0..MaxDeliveries /\ UNCHANGED aborts
    BY ReconciliationAssumption DEF Resume, IInv, TypeOK
<1>3. /\ new \in Exec /\ new.pc = "checked" /\ new.run = r
      /\ new.decision = d /\ ~new.saved /\ new.outcome = "none"
    BY NullRecords DEF Idle, Exec
<1> HIDE DEF new
<1>4. /\ exec'[h] = new /\ exec' \in [Handlers -> Exec]
      /\ \A g \in Handlers \ {h} : exec'[g] = exec[g]
    BY <1>1, <1>3 DEF IInv, TypeOK
<1>5. r \in posted /\ r < nextRun
    BY <1>1 DEF IInv, RunOK, TypeOK, Runs
<1>6. TypeOK' /\ TaskOK'
    BY <1>1, <1>2, <1>4 DEF IInv, TypeOK, TaskOK
<1>7. Apart'
    BY <1>1, <1>3, <1>4 DEF IInv, Apart, Active, ExecutionsOf
<1>8. \A s \in Runs : s \in disturbed => s \in disturbed'
    BY <1>1
<1>9. ASSUME NEW g \in Handlers PROVE ExecOK(g)'
    <2>1. CASE g = h
        BY <1>1, <1>3, <1>4, <1>5, <2>1
           DEF ExecOK, Investigating, Notifying, Applying
    <2>2. CASE g # h
        BY <1>1, <1>4, <1>8, <2>2 DEF IInv, ExecOK, Active, Decided
    <2> QED BY <2>1, <2>2
<1>10. ASSUME NEW s \in Runs PROVE RunOK(s)'
    <2>1. ASSUME NEW c, Pending(s, c) PROVE Pending(s, c)'
        BY <1>1, <1>4, <2>1 DEF Pending, Active, Applying
    <2>2. ASSUME NEW c, Committed(s, c) PROVE Committed(s, c)'
        BY <1>1, <2>1, <2>2 DEF Committed, Decided
    <2>3. s \in disturbed' => s \in disturbed \/ s = r
        BY <1>1
    <2> QED BY <1>1, <1>5, <1>8, <2>2, <2>3 DEF IInv, RunOK, Decided
<1> QED BY <1>6, <1>7, <1>9, <1>10 DEF IInv

\* A checkpoint that expires forgets the decision: of such a run little is left
\* to claim.
LEMMA ExpiryInv ==
    ASSUME IInv, NEW r \in Runs, CheckpointExpires(r)
    PROVE  IInv'
<1>1. /\ ExecutionsOf(r) = {}
      /\ thread' = [thread EXCEPT ![r] = NoThread]
      /\ UNCHANGED <<task, nextRun, writes, posted, answers, reply, exec, history>>
    BY DEF CheckpointExpires, odooVars, slack
<1>2. /\ thread' \in [Runs -> Thread] /\ thread'[r] = NoThread
      /\ \A s \in Runs \ {r} : thread'[s] = thread[s]
    BY <1>1, NullRecords DEF IInv, TypeOK
<1>3. TypeOK' /\ TaskOK'
    BY <1>1, <1>2 DEF IInv, TypeOK, TaskOK, history
<1>4. Apart'
    BY <1>1 DEF IInv, Apart, Active, history
<1>5. ASSUME NEW h \in Handlers PROVE ExecOK(h)'
    <2>1. Active(h) => exec[h].run \in Runs \ {r}
        BY <1>1 DEF IInv, ExecOK, Active, ExecutionsOf
    <2> QED BY <1>1, <1>2, <2>1 DEF IInv, ExecOK, Active, Decided, history
<1>6. ASSUME NEW s \in Runs PROVE RunOK(s)'
    <2>1. CASE s = r
        BY <1>1, <1>2, <2>1 DEF IInv, RunOK, Decided, Committed, NoThread, history
    <2>2. CASE s # r
        <3>1. \A c : Committed(s, c)' <=> Committed(s, c)
            BY <1>1, <1>2, <2>2 DEF Committed, Decided, Pending
        <3> QED BY <1>1, <1>2, <2>2, <3>1 DEF IInv, RunOK, Decided, history
    <2> QED BY <2>1, <2>2
<1> QED BY <1>3, <1>4, <1>5, <1>6 DEF IInv

-----------------------------------------------------------------------------
(* How often a run writes: only an execution that is cut short makes room for *)
(* another one.                                                              *)

\* An execution of the run has gone past the decision.
Applies(r) == \E h \in Handlers : exec[h].pc \in Applying /\ exec[h].run = r

\* What the run of an undisturbed execution had written before it.
SpentOK(h) ==
    LET e == exec[h]
    IN  Active(h) /\ e.run \notin disturbed =>
        /\ e.pc = "checked" => thread[e.run].next \notin {"none", "end"}
        /\ e.pc \in {"apply", "write"} => writes[e.run] <= 2 * aborts
        /\ e.pc = "retry" => writes[e.run] <= 2 * aborts + 1

\* An undisturbed run that may be resumed and write has not done so since its last
\* execution that was cut short.
UsedOK(r) == r \notin disturbed =>
    /\ writes[r] <= 2 * aborts + 2
    /\ thread[r].next \notin {"none", "end"} /\ ~Applies(r) =>
          writes[r] <= 2 * aborts

CountInv ==
    /\ \A h \in Handlers : SpentOK(h)
    /\ \A r \in Runs : UsedOK(r)

\* A step of an execution disturbs no account but its own.
LEMMA CountStep ==
    ASSUME IInv, CountInv, IInv', NEW h \in Handlers, Active(h), Frame(h),
           aborts' >= aborts, NEW r \in Runs, r = exec[h].run,
           SpentOK(h)', UsedOK(r)'
    PROVE  CountInv'
<1>1. aborts \in Nat /\ aborts' \in Nat
    BY DEF IInv, TypeOK
<1>2. ASSUME NEW g \in Handlers PROVE SpentOK(g)'
    <2>1. CASE g = h \/ ~Active(g)
        BY <2>1 DEF SpentOK, Active, Frame
    <2>2. CASE g # h /\ Active(g) /\ exec[g].run = r
        <3>1. r \in disturbed'
            BY <2>2 DEF IInv, Apart, Frame
        <3> QED BY <2>2, <3>1 DEF SpentOK, Frame
    <2>3. CASE g # h /\ Active(g) /\ exec[g].run # r
        <3>1. PICK s \in Runs \ {r} : s = exec[g].run
            BY <2>3 DEF IInv, ExecOK
        <3>2. /\ exec'[g] = exec[g] /\ thread'[s] = thread[s]
              /\ writes'[s] = writes[s] /\ writes[s] \in Nat
              /\ s \in disturbed => s \in disturbed'
            BY <2>3, <3>1 DEF Frame, IInv, TypeOK
        <3>3. SpentOK(g)
            BY DEF CountInv
        <3> QED BY <1>1, <2>3, <3>1, <3>2, <3>3 DEF SpentOK, Active
    <2> QED BY <2>1, <2>2, <2>3
<1>3. ASSUME NEW s \in Runs PROVE UsedOK(s)'
    <2>1. CASE s = r
        BY <2>1
    <2>2. CASE s # r
        <3>1. /\ thread'[s] = thread[s]
              /\ writes'[s] = writes[s] /\ writes[s] \in Nat
              /\ s \in disturbed => s \in disturbed'
            BY <2>2 DEF Frame, IInv, TypeOK
        <3>2. Applies(s)' <=> Applies(s)
            BY <2>2 DEF Applies, Frame, Applying
        <3>3. UsedOK(s)
            BY DEF CountInv
        <3> QED BY <1>1, <3>1, <3>2, <3>3 DEF UsedOK
    <2> QED BY <2>1, <2>2
<1> QED BY <1>2, <1>3 DEF CountInv

\* An execution that has not decided yet is the only one of its undisturbed run.
LEMMA Unspent ==
    ASSUME IInv, CountInv, NEW h \in Handlers, Active(h), NEW r \in Runs,
           r = exec[h].run, r \notin disturbed, exec[h].pc \notin Applying,
           thread[r].next \notin {"none", "end"}
    PROVE  writes[r] <= 2 * aborts
<1>1. ~Applies(r)
    BY DEF IInv, Apart, Active, Applies, Applying
<1> QED BY <1>1 DEF CountInv, UsedOK

\* A step that writes neither stock nor a checkpoint.
LEMMA CountMove ==
    ASSUME IInv, CountInv, IInv', NEW h \in Handlers,
           NEW r \in Runs, NEW e \in Exec, NEW t \in Thread, Finds(h, r, e, t),
           NEW new \in Exec, exec' = [exec EXCEPT ![h] = new],
           new = Idle \/ new.run = r,
           new.pc \notin {"checked", "retry"},
           new.pc = "apply" => e.pc = "checked",
           new.pc = "write" => e.pc = "apply",
           e.pc \in Applying => new.pc \in Applying,
           \A s \in Runs \ {r} : reply'[s] = reply[s],
           posted' \in {posted, posted \cup {r}},
           UNCHANGED <<nextRun, answers, writes, thread, history>>
    PROVE  CountInv'
<1>1. Active(h) /\ r = exec[h].run /\ e = exec[h] /\ t = thread[r]
    BY DEF Finds
<1>2. exec'[h] = new /\ \A g \in Handlers \ {h} : exec'[g] = exec[g]
    BY DEF IInv, TypeOK
<1>3. /\ writes[r] \in Nat /\ aborts \in Nat
      /\ UNCHANGED <<writes, thread, aborts, disturbed>>
    BY DEF IInv, TypeOK, history
<1>4. Frame(h)
    BY <1>1, <1>2, <1>3 DEF Frame, history, Idle
<1>5. SpentOK(h)'
    <2>1. CASE e.pc = "checked" /\ r \notin disturbed
        <3>1. thread[r].next \notin {"none", "end"}
            BY <1>1, <2>1 DEF CountInv, SpentOK
        <3>2. writes[r] <= 2 * aborts
            BY <1>1, <2>1, <3>1, Unspent DEF Applying
        <3> QED BY <1>1, <1>2, <1>3, <2>1, <3>2 DEF SpentOK, Idle, Active
    <2>2. CASE e.pc # "checked" /\ r \notin disturbed
        <3>1. e.pc = "apply" => writes[r] <= 2 * aborts
            BY <1>1, <2>2 DEF CountInv, SpentOK
        <3> QED BY <1>1, <1>2, <1>3, <2>2, <3>1 DEF SpentOK, Idle, Active
    <2>3. CASE r \in disturbed
        BY <1>1, <1>2, <1>3, <2>3 DEF SpentOK, Idle, Active
    <2> QED BY <2>1, <2>2, <2>3
<1>6. UsedOK(r)'
    <2>1. Applies(r) => Applies(r)'
        <3> SUFFICES ASSUME Applies(r) PROVE Applies(r)'
            OBVIOUS
        <3>1. PICK g \in Handlers : exec[g].pc \in Applying /\ exec[g].run = r
            BY DEF Applies
        <3> QED BY <1>1, <1>2, <3>1 DEF Applies, Idle, Applying
    <2>2. UsedOK(r)
        BY DEF CountInv
    <2> QED BY <1>3, <2>1, <2>2 DEF UsedOK
<1> QED BY <1>1, <1>3, <1>4, <1>5, <1>6, CountStep

\* Every node but those that write stock or a checkpoint.
LEMMA NodesCount ==
    ASSUME IInv, CountInv, IInv', NEW h \in Handlers,
           NEW r \in Runs, NEW e \in Exec, NEW t \in Thread, Finds(h, r, e, t),
           \/ Register(h) \/ PostProposal(h)
           \/ ResumeAtNotify(h) \/ ResumeAtDecision(h) \/ ResumeAtApply(h)
           \/ ResumeAtEnd(h) \/ SetApproval(h) \/ SetApprovalRaises(h)
           \/ RecordForHuman(h) \/ FlagFailed(h) \/ Confirm(h)
    PROVE  CountInv'
<1>1. r = exec[h].run /\ e = exec[h] /\ t = thread[r]
    BY DEF Finds
<1>2. /\ UNCHANGED <<nextRun, answers, writes, thread, history>>
      /\ posted' \in {posted, posted \cup {r}}
      /\ reply' = reply \/ reply' = [reply EXCEPT ![r] = e.outcome]
    BY <1>1 DEF Register, PostProposal, ResumeAtNotify, ResumeAtDecision,
                ResumeAtApply, ResumeAtEnd, SetApproval, SetApprovalRaises,
                RecordForHuman, FlagFailed, Confirm, odooVars, slack
<1>3. \A s \in Runs \ {r} : reply'[s] = reply[s]
    BY <1>2 DEF IInv, TypeOK
<1>4. PICK new \in Exec :
        /\ exec' = [exec EXCEPT ![h] = new]
        /\ new = Idle \/ new.run = r
        /\ new.pc \notin {"checked", "retry"}
        /\ new.pc = "apply" => e.pc = "checked"
        /\ new.pc = "write" => e.pc = "apply"
        /\ e.pc \in Applying => new.pc \in Applying
    <2> DEFINE new == exec'[h]
    <2>1. exec' \in [Handlers -> Exec] /\ exec \in [Handlers -> Exec] /\ new \in Exec
        BY DEF IInv, TypeOK
    <2>2. exec' = [exec EXCEPT ![h] = new]
        BY <2>1 DEF Register, PostProposal, ResumeAtNotify, ResumeAtDecision,
                ResumeAtApply, ResumeAtEnd, SetApproval, SetApprovalRaises,
                RecordForHuman, FlagFailed, Confirm, GoTo
    <2>3. \/ new = Idle /\ e.pc \notin Applying
          \/ /\ new.run = r
             /\ \/ /\ e.pc \notin Applying
                   /\ new.pc \in {"post", "noted", "notify"}
                \/ e.pc = "checked" /\ new.pc = "apply"
                \/ e.pc = "apply" /\ new.pc = "write"
                \/ new.pc \in {"confirm", "closing"}
        BY <1>1, <2>1 DEF Register, PostProposal, ResumeAtNotify, ResumeAtDecision,
                ResumeAtApply, ResumeAtEnd, SetApproval, SetApprovalRaises,
                RecordForHuman, FlagFailed, Confirm, GoTo, At, Applying, Exec
    <2> HIDE DEF new
    <2> QED BY <2>1, <2>2, <2>3 DEF Idle, Applying
<1> QED BY <1>2, <1>3, <1>4, CountMove

\* Nothing was written before the proposal is posted.
LEMMA InvestigationCounts ==
    ASSUME IInv, CountInv, IInv', NEW h \in Handlers,
           NEW r \in Runs, NEW e \in Exec, NEW t \in Thread, Finds(h, r, e, t),
           Gather(h) \/ Investigate(h) \/ CallTools(h) \/ Propose(h)
    PROVE  CountInv'
<1>1. /\ r = exec[h].run /\ e = exec[h] /\ t = thread[r] /\ Active(h)
      /\ e.pc \in Investigating
    BY DEF Finds, Gather, Investigate, CallTools, Propose, At, Investigating
<1>2. writes[r] = 0 /\ aborts \in Nat
    <2>1. r \notin posted
        BY <1>1 DEF IInv, ExecOK
    <2>2. ~(writes[r] > 0) /\ writes[r] \in Nat /\ aborts \in Nat
        BY <2>1 DEF IInv, RunOK, TypeOK
    <2> QED BY <2>2
<1>3. /\ exec'[h].run = r
      /\ exec'[h].pc \in {"investigate", "tools", "propose", "notify"}
      /\ \A g \in Handlers \ {h} : exec'[g] = exec[g]
    <2>1. PICK node \in {"investigate", "tools", "propose", "notify"} :
            exec' = [exec EXCEPT ![h].pc = node]
        BY DEF Gather, Investigate, CallTools, Propose, GoTo
    <2>2. exec \in [Handlers -> Exec]
        BY DEF IInv, TypeOK
    <2>3. exec'[h] = [e EXCEPT !.pc = node]
        BY <1>1, <2>1, <2>2
    <2> QED BY <1>1, <2>1, <2>2, <2>3 DEF Exec
<1>4. \A s \in Runs \ {r} : thread'[s] = thread[s]
    BY <1>1 DEF Gather, Investigate, CallTools, Propose, Checkpoint, IInv, TypeOK
<1>5. UNCHANGED <<odooVars, slack, history>>
    BY DEF Gather, Investigate, CallTools, Propose
<1>6. Frame(h)
    BY <1>1, <1>2, <1>3, <1>4, <1>5 DEF Frame, odooVars, slack, history
<1>7. SpentOK(h)' /\ UsedOK(r)'
    BY <1>2, <1>3, <1>5 DEF SpentOK, UsedOK, odooVars, history
<1> QED BY <1>1, <1>2, <1>5, <1>6, <1>7, CountStep DEF history

\* A write, and its repetition by execute_kw.
LEMMA WritesCount ==
    ASSUME IInv, CountInv, IInv', NEW h \in Handlers,
           NEW r \in Runs, NEW e \in Exec, NEW t \in Thread, Finds(h, r, e, t),
           WriteStock(h) \/ WriteRaises(h)
    PROVE  CountInv'
<1>1. /\ r = exec[h].run /\ e = exec[h] /\ t = thread[r] /\ Active(h)
      /\ e.pc \in {"write", "retry"}
    BY DEF Finds, WriteStock, WriteRaises, WriteCalled, At
<1>2. /\ writes' \in {writes, [writes EXCEPT ![r] = @ + 1]}
      /\ UNCHANGED <<task, nextRun, thread, slack, history>>
    BY <1>1 DEF WriteStock, WriteRaises, StockWritten
<1>3. /\ writes[r] \in Nat /\ aborts \in Nat
      /\ writes'[r] = writes[r] \/ writes'[r] = writes[r] + 1
      /\ \A s \in Runs \ {r} : writes'[s] = writes[s]
    BY <1>2 DEF IInv, TypeOK
<1>4. /\ exec'[h].run = r
      /\ exec'[h].pc \in {"confirm", "flag", "retry"}
      /\ exec'[h].pc = "retry" => e.pc = "write"
      /\ \A g \in Handlers \ {h} : exec'[g] = exec[g]
    <2>1. exec \in [Handlers -> Exec]
        BY DEF IInv, TypeOK
    <2>2. \A g \in Handlers \ {h} : exec'[g] = exec[g]
        BY <2>1 DEF WriteStock, WriteRaises, GoTo
    <2>3. PICK pc \in {"confirm", "flag", "retry"}, outcome \in Outcomes :
            /\ exec'[h] = [e EXCEPT !.pc = pc, !.outcome = outcome]
            /\ pc = "retry" => e.pc = "write"
        <3>1. CASE WriteStock(h)
            BY <1>1, <2>1, <3>1 DEF WriteStock, Outcomes
        <3>2. CASE WriteRaises(h) /\ e.pc = "write" /\ GoTo(h, "retry")
            <4>1. exec'[h] = [e EXCEPT !.pc = "retry", !.outcome = e.outcome]
                BY <1>1, <2>1, <3>2 DEF GoTo, Exec
            <4> QED BY <3>2, <4>1 DEF Exec
        <3>3. CASE WriteRaises(h) /\ ~(e.pc = "write" /\ GoTo(h, "retry"))
            BY <1>1, <2>1, <3>3 DEF WriteRaises, At, FailedOutcome, Outcomes
        <3> QED BY <3>1, <3>2, <3>3
    <2>4. exec'[h].run = r /\ exec'[h].pc = pc
        BY <1>1, <2>3 DEF Exec
    <2> QED BY <2>2, <2>3, <2>4
<1>5. Frame(h)
    BY <1>1, <1>2, <1>3, <1>4 DEF Frame, slack, history
<1>6. r \notin disturbed =>
        /\ e.pc = "write" => writes[r] <= 2 * aborts
        /\ e.pc = "retry" => writes[r] <= 2 * aborts + 1
    BY <1>1 DEF CountInv, SpentOK
<1>7. r \notin disturbed =>
        /\ writes'[r] <= 2 * aborts + 2
        /\ exec'[h].pc = "retry" => writes'[r] <= 2 * aborts + 1
    BY <1>1, <1>3, <1>4, <1>6
<1>8. SpentOK(h)'
    BY <1>2, <1>4, <1>7 DEF SpentOK, history
<1>9. Applies(r)'
    BY <1>4 DEF Applies, Applying
<1>10. UsedOK(r)'
    BY <1>2, <1>7, <1>9 DEF UsedOK, history
<1> QED BY <1>1, <1>2, <1>3, <1>5, <1>8, <1>10, CountStep DEF history

\* The checkpoints around the decision: an execution that ends leaves a thread
\* that is finished, and one that pauses has not written.
LEMMA CheckpointsCount ==
    ASSUME IInv, CountInv, IInv', NEW h \in Handlers,
           NEW r \in Runs, NEW e \in Exec, NEW t \in Thread, Finds(h, r, e, t),
           Pause(h) \/ SaveDecision(h) \/ Finish(h)
    PROVE  CountInv'
<1>1. r = exec[h].run /\ e = exec[h] /\ t = thread[r] /\ Active(h)
    BY DEF Finds
<1>2. UNCHANGED <<odooVars, slack, history>>
    BY DEF Pause, SaveDecision, Finish
<1>3. /\ writes[r] \in Nat /\ aborts \in Nat /\ thread[r] \in Thread
      /\ exec \in [Handlers -> Exec] /\ thread \in [Runs -> Thread]
    BY DEF IInv, TypeOK
<1>4. \A s \in Runs \ {r} : thread'[s] = thread[s]
    BY <1>1, <1>3 DEF Pause, SaveDecision, Finish, Checkpoint
<1>5. /\ \A g \in Handlers \ {h} : exec'[g] = exec[g]
      /\ \/ exec'[h] = Idle /\ Pause(h)
         \/ exec'[h] = Idle /\ Finish(h)
         \/ exec'[h] = [e EXCEPT !.saved = TRUE] /\ SaveDecision(h)
    BY <1>1, <1>3 DEF Pause, SaveDecision, Finish
<1>6. Frame(h)
    BY <1>1, <1>2, <1>3, <1>4, <1>5 DEF Frame, odooVars, slack, history, Idle, Exec
<1>7. UsedOK(r)
    BY DEF CountInv
<1>8. CASE Pause(h) /\ exec'[h] = Idle
    <2>1. e.pc = "noted" /\ e.pc \notin Applying
        BY <1>1, <1>8 DEF Pause, At, Applying
    <2>2. r \notin disturbed => t.next = "notify"
        BY <1>1, <2>1 DEF IInv, ExecOK, Notifying
    <2>3. r \notin disturbed => writes[r] <= 2 * aborts
        BY <1>1, <2>1, <2>2, Unspent
    <2>4. SpentOK(h)' /\ UsedOK(r)'
        BY <1>2, <1>3, <1>8, <2>3
           DEF SpentOK, UsedOK, Active, Idle, odooVars, history
    <2> QED BY <1>1, <1>2, <1>3, <1>6, <2>4, CountStep DEF history
<1>9. CASE Finish(h) /\ exec'[h] = Idle
    <2>1. thread'[r].next = "end"
        BY <1>1, <1>3, <1>9 DEF Finish, Checkpoint, Thread
    <2>2. SpentOK(h)' /\ UsedOK(r)'
        BY <1>2, <1>3, <1>7, <1>9, <2>1
           DEF SpentOK, UsedOK, Active, Idle, odooVars, history
    <2> QED BY <1>1, <1>2, <1>3, <1>6, <2>2, CountStep DEF history
<1>10. CASE SaveDecision(h) /\ exec'[h] = [e EXCEPT !.saved = TRUE]
    <2>1. exec'[h].pc = e.pc /\ exec'[h].run = r /\ e.pc \in Applying
        BY <1>1, <1>10 DEF SaveDecision, Exec
    <2>2. SpentOK(h)
        BY DEF CountInv
    <2>3. SpentOK(h)'
        BY <1>1, <1>2, <2>1, <2>2 DEF SpentOK, Active, Applying, odooVars, history
    <2>4. Applies(r)'
        BY <2>1 DEF Applies
    <2>5. UsedOK(r)'
        BY <1>2, <1>7, <2>4 DEF UsedOK, odooVars, history
    <2> QED BY <1>1, <1>2, <1>3, <1>6, <2>3, <2>5, CountStep DEF history
<1> QED BY <1>5, <1>8, <1>9, <1>10

\* An execution that is cut short makes room for another one.
LEMMA AbortCounts ==
    ASSUME IInv, CountInv, IInv', NEW h \in Handlers,
           NEW r \in Runs, NEW e \in Exec, NEW t \in Thread, Finds(h, r, e, t),
           Abort(h)
    PROVE  CountInv'
<1>1. r = exec[h].run /\ e = exec[h] /\ t = thread[r] /\ Active(h)
    BY DEF Finds
<1>2. /\ UNCHANGED <<odooVars, thread, slack>> /\ aborts' = aborts + 1
      /\ disturbed' \in {disturbed, disturbed \cup {r}}
    BY <1>1 DEF Abort
<1>3. /\ writes[r] \in Nat /\ aborts \in Nat
      /\ exec'[h] = Idle /\ \A g \in Handlers \ {h} : exec'[g] = exec[g]
    BY DEF Abort, IInv, TypeOK
<1>4. Frame(h)
    BY <1>1, <1>2, <1>3 DEF Frame, odooVars, slack, Idle
<1>5. r \notin disturbed => writes[r] <= 2 * aborts + 2
    BY DEF CountInv, UsedOK
<1>6. r \notin disturbed' => writes'[r] <= 2 * aborts'
    BY <1>2, <1>3, <1>5 DEF odooVars
<1>7. SpentOK(h)'
    BY <1>3 DEF SpentOK, Active, Idle
<1>8. aborts' \in Nat /\ aborts' >= aborts /\ writes'[r] \in Nat
    BY <1>2, <1>3 DEF odooVars
<1>9. UsedOK(r)'
    BY <1>6, <1>8 DEF UsedOK
<1> QED BY <1>1, <1>4, <1>7, <1>8, <1>9, CountStep

\* Whatever an execution does keeps the account.
LEMMA StepCounts ==
    ASSUME IInv, CountInv, IInv', NEW h \in Handlers, Step(h) \/ Abort(h)
    PROVE  CountInv'
<1>1. Active(h)
    BY DEF Step, Abort, Active, At, Gather, Investigate, CallTools, Propose,
           Register, PostProposal, Pause, ResumeAtNotify, ResumeAtDecision,
           ResumeAtApply, ResumeAtEnd, SaveDecision, SetApproval,
           SetApprovalRaises, RecordForHuman, WriteStock, WriteRaises,
           WriteCalled, FlagFailed, Confirm, Finish, Applying
<1>2. PICK r \in Runs, e \in Exec, t \in Thread : Finds(h, r, e, t)
    BY <1>1, ActiveRun DEF Finds
<1> QED BY <1>2, InvestigationCounts, NodesCount, WritesCount, CheckpointsCount,
           AbortCounts DEF Step

\* An execution that starts, of a new run or of one that is found paused and
\* alone, has written nothing yet.
LEMMA StartCounts ==
    ASSUME IInv, CountInv, NEW h \in Handlers,
           \/ StartForProduct(h) \/ StartAgain(h)
           \/ \E r \in Runs, d \in Decisions : Resume(h, r, d)
    PROVE  CountInv'
<1>1. /\ UNCHANGED <<writes, thread, aborts>>
      /\ \A s \in Runs : s \in disturbed => s \in disturbed'
    BY DEF StartForProduct, StartAgain, Resume, odooVars, history
<1>2. ~Active(h) /\ exec \in [Handlers -> Exec]
    BY DEF StartForProduct, StartAgain, Launch, Resume, At, Active, IInv, TypeOK
<1>3. PICK r \in Runs, new \in Exec :
        /\ exec' = [exec EXCEPT ![h] = new]
        /\ new.run = r /\ new.pc \in {"gather", "checked"}
        /\ new.pc = "checked" => thread[r].next \notin {"none", "end"}
    <2>1. CASE StartForProduct(h) \/ StartAgain(h)
        <3> DEFINE new == [Idle EXCEPT !.pc = "gather", !.run = nextRun]
        <3>1. nextRun \in Runs /\ exec' = [exec EXCEPT ![h] = new]
            BY <2>1 DEF StartForProduct, StartAgain, Launch
        <3>2. new \in Exec /\ new.run = nextRun /\ new.pc = "gather"
            BY <3>1, NullRecords DEF Idle, Exec
        <3> HIDE DEF new
        <3> QED BY <3>1, <3>2
    <2>2. ASSUME NEW r \in Runs, NEW d \in Decisions, Resume(h, r, d)
          PROVE  \E new \in Exec :
                    /\ exec' = [exec EXCEPT ![h] = new]
                    /\ new.run = r /\ new.pc = "checked"
                    /\ thread[r].next \notin {"none", "end"}
        <3> DEFINE new == [Idle EXCEPT !.pc = "checked", !.run = r, !.decision = d]
        <3>1. /\ exec' = [exec EXCEPT ![h] = new]
              /\ thread[r].next \notin {"none", "end"}
            BY <2>2 DEF Resume, ClickDecision
        <3>2. new \in Exec /\ new.run = r /\ new.pc = "checked"
            BY NullRecords DEF Idle, Exec
        <3> HIDE DEF new
        <3> QED BY <3>1, <3>2
    <2> QED BY <2>1, <2>2
<1>4. /\ exec'[h] = new /\ new.pc \notin Applying
      /\ \A g \in Handlers \ {h} : exec'[g] = exec[g]
    BY <1>2, <1>3 DEF Applying
<1>5. ASSUME NEW g \in Handlers PROVE SpentOK(g)'
    <2>1. CASE g = h
        BY <1>1, <1>3, <1>4, <2>1 DEF SpentOK
    <2>2. CASE g # h
        <3>1. Active(g) => exec[g].run \in Runs
            BY DEF IInv, ExecOK
        <3> QED BY <1>1, <1>4, <2>2, <3>1 DEF SpentOK, Active, CountInv
    <2> QED BY <2>1, <2>2
<1>6. ASSUME NEW s \in Runs PROVE UsedOK(s)'
    <2>1. Applies(s) => Applies(s)'
        BY <1>2, <1>4 DEF Applies, Active, Applying
    <2> QED BY <1>1, <2>1 DEF UsedOK, CountInv
<1> QED BY <1>5, <1>6 DEF CountInv

\* An expired checkpoint is never resumed; the steps of Odoo and of managers
\* write nothing.
LEMMA OtherCounts ==
    ASSUME IInv, CountInv,
           \/ UNCHANGED vars \/ CommitTask \/ ExpireStaleTask
           \/ \E d \in Decisions : OdooDecides(d)
           \/ \E r \in Runs, d \in Decisions : ManagerAnswers(r, d)
           \/ \E r \in Runs : CheckpointExpires(r)
    PROVE  CountInv'
<1>1. UNCHANGED <<writes, exec, history>>
    BY DEF vars, CommitTask, ExpireStaleTask, OdooDecides, ManagerAnswers,
           CheckpointExpires, odooVars, history
<1>2. \/ UNCHANGED thread
      \/ \E r \in Runs : /\ ExecutionsOf(r) = {}
                         /\ thread' = [thread EXCEPT ![r] = NoThread]
    BY DEF vars, CommitTask, ExpireStaleTask, OdooDecides, ManagerAnswers,
           CheckpointExpires
<1>3. \A s \in Runs : \/ thread'[s] = thread[s]
                      \/ ExecutionsOf(s) = {} /\ thread'[s].next = "none"
    BY <1>2 DEF IInv, TypeOK, NoThread
<1>4. ASSUME NEW h \in Handlers PROVE SpentOK(h)'
    <2>1. Active(h) => thread'[exec[h].run] = thread[exec[h].run]
        BY <1>3 DEF IInv, ExecOK, Active, ExecutionsOf
    <2> QED BY <1>1, <2>1 DEF SpentOK, Active, CountInv, history
<1>5. ASSUME NEW s \in Runs PROVE UsedOK(s)'
    BY <1>1, <1>3 DEF UsedOK, CountInv, Applies, history
<1> QED BY <1>4, <1>5 DEF CountInv

\* Every step keeps the account.
LEMMA NextCountInv == IInv /\ CountInv /\ IInv' /\ [Next]_vars => CountInv'
BY StepCounts, StartCounts, OtherCounts DEF Next

\* At the start nothing was written.
LEMMA InitCountInv == Init => CountInv
<1> SUFFICES ASSUME Init PROVE CountInv
    OBVIOUS
<1>1. /\ aborts = 0 /\ \A r \in Runs : writes[r] = 0
      /\ \A h \in Handlers : ~Active(h)
    BY DEF Init, Active, Idle
<1> QED BY <1>1 DEF CountInv, SpentOK, UsedOK

-----------------------------------------------------------------------------
(* The theorems *)

\* At the start no run was accepted.
LEMMA InitIInv == Init => IInv
<1> SUFFICES ASSUME Init PROVE IInv
    OBVIOUS
<1>1. TypeOK
    <2>1. task \in TaskRow /\ nextRun \in 1..(MaxRuns + 1)
        BY ReconciliationAssumption DEF Init, TaskRow, AiOps!States
    <2> QED BY <2>1, NullRecords, ReconciliationAssumption
            DEF Init, TypeOK, Outcomes
<1>2. \A h \in Handlers : ~Active(h)
    BY DEF Init, Active, Idle
<1>3. \A r \in Runs : RunOK(r)
    BY DEF Init, RunOK, Decided, NoThread
<1> QED BY <1>1, <1>2, <1>3 DEF IInv, TaskOK, Apart, ExecOK, Init

\* Every step keeps the invariant.
LEMMA NextIInv == IInv /\ [Next]_vars => IInv'
<1> SUFFICES ASSUME IInv, [Next]_vars PROVE IInv'
    OBVIOUS
<1>1. CASE UNCHANGED vars
    <2>1. task \in TaskRow /\ TaskOK
        BY DEF IInv, TypeOK
    <2> QED BY <1>1, <2>1, TaskInv DEF vars, slack, history, TaskOK
<1>2. CASE Next
    BY <1>2, StepInv, LaunchInv, ResumeInv, AnswerInv, ExpiryInv, OdooInv DEF Next
<1> QED BY <1>1, <1>2

\* The inductive invariant holds throughout.
THEOREM Invariance == Spec => []IInv
BY InitIInv, NextIInv, PTL DEF Spec

\* Every variable keeps its type; of tool_loops, that the model is asked at most
\* once after its budget is spent.
THEOREM TypeCorrect == Spec => []TypeOK
<1>1. IInv => TypeOK
    BY DEF IInv
<1> QED BY <1>1, Invariance, PTL

\* However many runs are started for a task, executions overlap or are cut short
\* and calls are retried, a stock is written only for a run that was approved,
\* while Odoo holds an approval of its task: the workflow implements WriteGate.
THEOREM WritesGated == Spec => WritesAreGated
<1>1. Init => Gate!Init
    BY DEF Init, Gate!Init
<1>2. IInv /\ [Next]_vars => [Gate!Next]_(Gate!vars)
    <2> SUFFICES ASSUME IInv, [Next]_vars PROVE [Gate!Next]_(Gate!vars)
        OBVIOUS
    <2> USE DEF Gate!vars
    <2>1. CASE UNCHANGED vars
        BY <2>1 DEF vars
    <2>2. ASSUME NEW h \in Handlers, WriteStock(h) \/ WriteRaises(h)
          PROVE  [Gate!Next]_(Gate!vars)
        <3>1. exec[h].run \in Runs /\ "approve" \in answers[exec[h].run]
            BY <2>2 DEF IInv, ExecOK, Active, Applying, WriteStock, WriteRaises,
                        WriteCalled, At
        <3>2. UNCHANGED <<task, answers>>
            BY <2>2 DEF WriteStock, WriteRaises, slack
        <3>3. CASE UNCHANGED writes
            BY <3>2, <3>3
        <3>4. CASE GateOpen /\ StockWritten(h)
            <4>1. Gate!Write(exec[h].run)
                BY <3>1, <3>2, <3>4 DEF Gate!Write, GateOpen, StockWritten
            <4> QED BY <3>1, <4>1 DEF Gate!Next
        <3> QED BY <2>2, <3>3, <3>4 DEF WriteStock, WriteRaises
    <2>3. ASSUME NEW h \in Handlers, SetApproval(h) \/ SetApprovalRaises(h)
          PROVE  [Gate!Next]_(Gate!vars)
        <3>1. exec[h].decision \in Decisions
            BY <2>3, ReconciliationAssumption
               DEF IInv, TypeOK, ExecOK, Active, Applying, SetApproval,
                   SetApprovalRaises, At
        <3>2. UNCHANGED <<answers, writes>>
            BY <2>3 DEF SetApproval, SetApprovalRaises, slack
        <3>3. CASE UNCHANGED task
            BY <3>2, <3>3
        <3>4. CASE task' = AiOps!DecidedTask(task, exec[h].decision)
            <4>1. Gate!Decide(exec[h].decision)
                BY <3>2, <3>4 DEF Gate!Decide, AiOps!DecidedTask, IInv, TypeOK, TaskRow
            <4> QED BY <3>1, <4>1 DEF Gate!Next
        <3> QED BY <2>3, <3>3, <3>4 DEF SetApproval, SetApprovalRaises
    <2>4. ASSUME NEW d \in Decisions, OdooDecides(d)
          PROVE  [Gate!Next]_(Gate!vars)
        <3>1. Gate!Decide(d)
            BY <2>4 DEF OdooDecides, Gate!Decide, AiOps!DecidedTask, slack,
                        IInv, TypeOK, TaskRow
        <3> QED BY <3>1 DEF Gate!Next
    <2>5. ASSUME NEW r \in Runs, NEW d \in Decisions, ManagerAnswers(r, d)
          PROVE  [Gate!Next]_(Gate!vars)
        <3>1. Gate!Answer(r, d)
            BY <2>5 DEF ManagerAnswers, Gate!Answer, odooVars
        <3> QED BY <3>1 DEF Gate!Next
    <2>6. CASE CommitTask \/ ExpireStaleTask
        BY <2>6 DEF CommitTask, ExpireStaleTask, slack, AiOps!ExpiredTask, IInv,
                    TypeOK, TaskOK, TaskRow
    <2>7. ASSUME NEW h \in Handlers, StartForProduct(h) \/ StartAgain(h)
          PROVE  UNCHANGED Gate!vars
        BY <2>7 DEF StartForProduct, StartAgain, slack, AiOps!DispatchedTask,
                    IInv, TypeOK, TaskRow
    <2>8. ASSUME NEW h \in Handlers, Register(h) \/ FlagFailed(h)
          PROVE  UNCHANGED Gate!vars
        BY <2>8 DEF Register, FlagFailed, slack, AiOps!RegisteredTask,
                    IInv, TypeOK, TaskRow
    <2>9. ASSUME NEW h \in Handlers,
                 \/ Gather(h) \/ Investigate(h) \/ CallTools(h) \/ Propose(h)
                 \/ PostProposal(h) \/ Pause(h)
                 \/ ResumeAtNotify(h) \/ ResumeAtDecision(h) \/ ResumeAtApply(h)
                 \/ ResumeAtEnd(h) \/ SaveDecision(h) \/ RecordForHuman(h)
                 \/ Confirm(h) \/ Finish(h) \/ Abort(h)
          PROVE  UNCHANGED Gate!vars
        BY <2>9 DEF Gather, Investigate, CallTools, Propose, PostProposal, Pause,
                    ResumeAtNotify, ResumeAtDecision, ResumeAtApply, ResumeAtEnd,
                    SaveDecision, RecordForHuman, Confirm, Finish, Abort, odooVars,
                    slack
    <2>10. ASSUME NEW r \in Runs,
                  CheckpointExpires(r) \/ \E h \in Handlers, d \in Decisions :
                                             Resume(h, r, d)
           PROVE  UNCHANGED Gate!vars
        BY <2>10 DEF CheckpointExpires, Resume, odooVars, slack
    <2> QED BY <2>1, <2>2, <2>3, <2>4, <2>5, <2>6, <2>7, <2>8, <2>9, <2>10
            DEF Next, Step
<1> QED BY <1>1, <1>2, Invariance, PTL DEF Spec, WritesAreGated, Gate!Spec

\* The checkpoint of a rejection and an approval that was sent exclude each other.
LEMMA RejectedUnwritten ==
    ASSUME IInv, NEW r \in Runs \ disturbed, thread[r].decision = "reject"
    PROVE  writes[r] = 0
<1>1. Decided(r)
    BY DEF IInv, RunOK
<1>2. ASSUME Pending(r, "approve") PROVE FALSE
    <2>1. PICK h \in Handlers :
            /\ exec[h].pc \in Applying \ {"apply"} /\ exec[h].run = r
            /\ ~exec[h].saved
        BY <1>2 DEF Pending
    <2>2. thread[r].next = "await_decision"
        BY <2>1 DEF IInv, ExecOK, Active, Applying
    <2> QED BY <1>1, <2>2 DEF Decided
<1>3. ~Committed(r, "approve")
    BY <1>1, <1>2 DEF Committed, Decided
<1> QED BY <1>3 DEF IInv, RunOK, TypeOK

\* Answers handled one after the other are obeyed, however often they are delivered:
\* a run writes nothing once it holds a rejection, and what was approved in one
\* execution only, in another one after an execution that was cut short.
THEOREM AnswersObeyed == Spec => []AnswersAreObeyed
<1>1. IInv /\ CountInv => AnswersAreObeyed
    <2> SUFFICES ASSUME IInv, CountInv, NEW r \in Runs \ disturbed
                 PROVE  writes[r] <= IF thread[r].decision = "reject" THEN 0
                                     ELSE 2 * (aborts + 1)
        BY DEF AnswersAreObeyed
    <2>1. CASE thread[r].decision = "reject"
        <3>1. writes[r] = 0
            BY <2>1, RejectedUnwritten
        <3> QED BY <2>1, <3>1
    <2>2. CASE thread[r].decision # "reject"
        <3>1. writes[r] <= 2 * aborts + 2
            BY DEF CountInv, UsedOK
        <3>2. aborts \in Nat /\ writes[r] \in Nat
            BY DEF IInv, TypeOK
        <3> QED BY <2>2, <3>1, <3>2
    <2> QED BY <2>1, <2>2
<1>2. Spec => []CountInv
    BY InitCountInv, NextCountInv, Invariance, PTL DEF Spec
<1> QED BY <1>1, <1>2, Invariance, PTL

\* What the reply under a proposal says of the stock is what its run did.
THEOREM RepliesAreTrue == Spec => []ReplyIsTrue
<1>1. IInv => ReplyIsTrue
    BY DEF IInv, RunOK, ReplyIsTrue
<1> QED BY <1>1, Invariance, PTL

-----------------------------------------------------------------------------
(* What WriteGate comes to, and the workflow with it. *)

WrittenIsApproved == \A r \in Runs : writes[r] > 0 => "approve" \in answers[r]

GateInv ==
    /\ DOMAIN answers = Runs /\ writes \in [Runs -> Nat]
    /\ WrittenIsApproved

LEMMA GateKeeps == GateInv /\ [Gate!Next]_(Gate!vars) => GateInv'
BY DEF GateInv, WrittenIsApproved, Gate!Next, Gate!vars, Gate!Answer, Gate!Decide,
       Gate!Write

\* Whatever is crashed, retried or redelivered, and whatever became of the task
\* since: a run wrote to a stock only if a manager approved that very run; the
\* approval of an earlier run of the task is not enough.
THEOREM EachRunIsApproved == Spec => []WrittenIsApproved
<1>1. Gate!Init => GateInv
    BY DEF Gate!Init, GateInv, WrittenIsApproved
<1>2. GateInv /\ [Gate!Next]_(Gate!vars) => GateInv'
    BY GateKeeps
<1>3. GateInv => WrittenIsApproved
    BY DEF GateInv
<1> QED BY <1>1, <1>2, <1>3, WritesGated, PTL DEF WritesAreGated, Gate!Spec
=============================================================================

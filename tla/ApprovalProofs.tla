--------------------------- MODULE ApprovalProofs ---------------------------
(***************************************************************************)
(* Proofs about ApprovalGraph, for any number of executions, clicks,        *)
(* receives and aborts: clicks handled one after the other agree, the card  *)
(* shows no other decision than Odoo took, no click is dropped, what is     *)
(* over stays over, and the run honours the contract AgentRun.              *)
(*                                                                         *)
(* As long as executions do not overlap, the checkpoint says how far the    *)
(* one under way has come, and holds what was sent to Odoo, or is about to. *)
(***************************************************************************)
EXTENDS ApprovalGraph, FiniteSetTheorems, TLAPS

Busy(e) == exec[e].pc # "idle"

Notifying == {"notify", "card", "noted"}
Applying == {"finalize", "wrote", "closing"}

Decided == thread.next \in {"finalize", "end"}

Clicked == {click[c] : c \in Clicks} \ {"undecided"}

QueueOK == \A c \in queue : click[c] # "undecided"

\* Before the first card nobody can have clicked, and nothing is sent to Odoo.
Quiet ==
    card = "none" =>
        /\ queue = {} /\ applied = {}
        /\ \A c \in Clicks : click[c] = "undecided"
        /\ \A e \in Handlers : Busy(e) => exec[e].pc \in {"analyze"} \cup Notifying
        /\ \A e, f \in Handlers : Busy(e) /\ Busy(f) => e = f

Alone == ~disturbed => \A e, f \in Handlers : Busy(e) /\ Busy(f) => e = f

ThreadOK == IF Decided THEN thread.decision \in Clicked
                       ELSE thread.decision = "undecided"

\* An execution: the decision it applies was clicked, and undisturbed it agrees
\* with the checkpoint.
ExecOK(e) ==
    LET x == exec[e]
    IN  /\ x.pc = "analyze" => card = "none" /\ thread.next = "none"
        /\ x.pc \in Notifying /\ ~disturbed => thread.next = "notify"
        /\ x.pc = "checked" => x.click \in Clicks /\ click[x.click] # "undecided"
        /\ x.pc \in Applying => x.decision \in Clicked
        /\ x.pc \notin Applying => ~x.saved
        /\ x.pc \in Applying /\ ~disturbed =>
              IF x.saved THEN Decided /\ thread.decision = x.decision
                         ELSE thread.next = "await_decision"

\* An execution that has called Odoo, and not checkpointed its decision yet.
Pending(d) == \E e \in Handlers :
    exec[e].pc \in {"wrote", "closing"} /\ ~exec[e].saved /\ exec[e].decision = d

Committed(d) ==
    \/ Decided /\ thread.decision = d
    \/ thread.next = "none"
    \/ Pending(d)

AppliedOK ==
    ~disturbed => /\ \A d \in applied : Committed(d)
                  /\ \A a, b \in applied : a = b

CardOK ==
    ~disturbed /\ card \in Decisions => Committed(card) /\ applied \subseteq {card}

IInv ==
    /\ TypeOK
    /\ QueueOK /\ Quiet /\ Alone
    /\ ThreadOK
    /\ \A e \in Handlers : ExecOK(e)
    /\ AppliedOK /\ CardOK

-----------------------------------------------------------------------------
(* Types *)

\* The operators on the row of the task keep its type.
LEMMA TaskRows ==
    /\ NoTask \in Task
    /\ ~Exists(NoTask)
    /\ \A x \in Task :
          /\ RegisteredTask(x) \in Task
          /\ ExpiredTask(x) \in Task
          /\ \A d \in Decisions : DecidedTask(x, d) \in Task
          /\ \A b \in BOOLEAN : DispatchedTask(x, b) \in Task
    /\ \A o \in Orders : NewTask(o, "high", "queued", TRUE) \in Task
<1>1. (CHOOSE o \in Orders : TRUE) \in Orders
    BY OrdersAssumption
<1>2. NoTask \in Task /\ ~Exists(NoTask)
    BY <1>1 DEF NoTask, Task, States, Levels, Decisions, Exists
<1>3. ASSUME NEW x \in Task
      PROVE  /\ RegisteredTask(x) \in Task
             /\ ExpiredTask(x) \in Task
             /\ \A d \in Decisions : DecidedTask(x, d) \in Task
             /\ \A b \in BOOLEAN : DispatchedTask(x, b) \in Task
    BY DEF Task, States, Decisions, RegisteredTask, ExpiredTask, DecidedTask,
           DispatchedTask
<1>4. \A o \in Orders : NewTask(o, "high", "queued", TRUE) \in Task
    BY DEF NewTask, Task, States, Levels, Decisions
<1> QED BY <1>2, <1>3, <1>4

\* An idle slot is well-typed.
LEMMA IdleType == Idle \in Exec
BY DEF Idle, Exec

\* What was clicked is a decision.
LEMMA ClickedType == TypeOK => Clicked \subseteq Decisions
BY DEF TypeOK, Clicked

-----------------------------------------------------------------------------
(* What an undisturbed execution knows *)

\* What was sent to Odoo is what the execution under way applies.
LEMMA Agrees ==
    ASSUME IInv, NEW e \in Handlers, exec[e].pc \in Applying, ~disturbed,
           NEW d, Committed(d)
    PROVE  exec[e].decision = d
<1>1. IF exec[e].saved THEN Decided /\ thread.decision = exec[e].decision
                       ELSE thread.next = "await_decision"
    BY DEF IInv, ExecOK
<1>2. CASE Pending(d)
    BY <1>2 DEF IInv, Alone, Pending, Busy, Applying
<1>3. CASE ~Pending(d)
    BY <1>1, <1>3 DEF Committed, Decided
<1> QED BY <1>2, <1>3

\* After its call to Odoo an execution remembers what it sent.
LEMMA Remembered ==
    ASSUME IInv, NEW e \in Handlers, exec[e].pc \in {"wrote", "closing"}, ~disturbed
    PROVE  Committed(exec[e].decision)
BY DEF IInv, ExecOK, Committed, Pending, Applying

\* Up to the pause nothing was sent to Odoo, and the card shows no outcome.
LEMMA NothingYet ==
    ASSUME IInv, NEW e \in Handlers, exec[e].pc \in {"analyze"} \cup Notifying,
           ~disturbed
    PROVE  applied = {} /\ card \notin Decisions
<1>1. CASE exec[e].pc = "analyze"
    BY <1>1 DEF IInv, ExecOK, Quiet, Decisions
<1>2. CASE exec[e].pc \in Notifying
    <2>1. thread.next = "notify"
        BY <1>2 DEF IInv, ExecOK
    <2>2. ASSUME NEW d PROVE ~Pending(d)
        BY <1>2 DEF IInv, Alone, Pending, Busy, Notifying
    <2>3. ASSUME NEW d PROVE ~Committed(d)
        BY <2>1, <2>2 DEF Committed, Decided
    <2> QED BY <2>3 DEF IInv, AppliedOK, CardOK
<1> QED BY <1>1, <1>2

-----------------------------------------------------------------------------
(* The steps of an execution *)

\* It is enough to look at the execution that steps: another one makes the run
\* disturbed, and little is claimed of it then.
LEMMA OneExecution ==
    ASSUME IInv, NEW e \in Handlers, Busy(e),
           \A f \in Handlers \ {e} : exec'[f] = exec[f],
           click' = click, queue' \subseteq queue,
           disturbed => disturbed', card # "none" => card' # "none",
           card' = "none" => /\ applied' = {}
                             /\ exec'[e].pc \in {"idle", "analyze"} \cup Notifying,
           TypeOK', ThreadOK', ExecOK(e)', AppliedOK', CardOK'
    PROVE  IInv'
<1>1. QueueOK'
    BY DEF IInv, QueueOK
<1>2. \A f \in Handlers : Busy(f)' => Busy(f)
    BY DEF Busy
<1>3. Quiet'
    <2>1. CASE card' # "none"
        BY <2>1 DEF Quiet
    <2>2. CASE card' = "none"
        BY <1>2, <2>2 DEF IInv, Quiet, Busy
    <2> QED BY <2>1, <2>2
<1>4. Alone'
    BY <1>2 DEF IInv, Alone
<1>5. ASSUME NEW f \in Handlers PROVE ExecOK(f)'
    <2>1. CASE f = e
        BY <2>1
    <2>2. CASE f # e /\ ~Busy(f)
        BY <2>2 DEF ExecOK, Busy, Notifying, Applying, IInv
    <2>3. CASE f # e /\ Busy(f)
        <3>1. disturbed /\ disturbed'
            BY <2>3 DEF IInv, Alone
        <3>2. exec[f].pc # "analyze"
            BY <2>3 DEF IInv, ExecOK, Quiet
        <3> QED BY <2>3, <3>1, <3>2 DEF IInv, ExecOK, Clicked
    <2> QED BY <2>1, <2>2, <2>3
<1> QED BY <1>1, <1>3, <1>4, <1>5 DEF IInv

\* The nodes up to the pause.
LEMMA NotifyInv ==
    ASSUME IInv, NEW e \in Handlers,
           Analyze(e) \/ Register(e) \/ PostCard(e) \/ Pause(e)
    PROVE  IInv'
<1>1. /\ Busy(e) /\ exec[e].pc \in {"analyze"} \cup Notifying
      /\ exec[e] \in Exec /\ ~exec[e].saved
    BY DEF Analyze, Register, PostCard, Pause, GoTo, Busy, Notifying, Applying,
           IInv, ExecOK, TypeOK
<1>2. ~disturbed => applied = {} /\ card \notin Decisions
    BY <1>1, NothingYet
<1>3. PICK new \in Exec :
        /\ exec' = [exec EXCEPT ![e] = new]
        /\ new.pc \in {"idle"} \cup Notifying /\ ~new.saved
        /\ new.pc # "idle" => new.pc \in Notifying /\ ~Pause(e)
        /\ new.pc = "notify" => thread'.next = "notify"
    <2>1. CASE Pause(e)
        BY <2>1, IdleType DEF Pause, Done, Idle
    <2>2. CASE Analyze(e)
        <3> DEFINE new == [exec[e] EXCEPT !.pc = "notify"]
        <3>1. new \in Exec /\ new.pc = "notify" /\ ~new.saved
            BY <1>1 DEF Exec
        <3>2. exec' = [exec EXCEPT ![e] = new] /\ thread'.next = "notify"
            BY <2>2 DEF Analyze, GoTo, IInv, TypeOK, Thread
        <3>3. ~Pause(e)
            BY <2>2 DEF Analyze, Pause, GoTo
        <3> QED BY <3>1, <3>2, <3>3 DEF Notifying
    <2>3. CASE Register(e)
        <3> DEFINE new == [exec[e] EXCEPT !.pc = "card"]
        <3>1. new \in Exec /\ new.pc = "card" /\ ~new.saved
            BY <1>1 DEF Exec
        <3>2. exec' = [exec EXCEPT ![e] = new] /\ ~Pause(e)
            BY <2>3 DEF Register, Pause, GoTo
        <3> QED BY <3>1, <3>2 DEF Notifying
    <2>4. CASE PostCard(e)
        <3> DEFINE new == [exec[e] EXCEPT !.pc = "noted"]
        <3>1. new \in Exec /\ new.pc = "noted" /\ ~new.saved
            BY <1>1 DEF Exec
        <3>2. exec' = [exec EXCEPT ![e] = new] /\ ~Pause(e)
            BY <2>4 DEF PostCard, Pause, GoTo
        <3> QED BY <3>1, <3>2 DEF Notifying
    <2> QED BY <2>1, <2>2, <2>3, <2>4
<1>4. /\ exec'[e] = new /\ exec' \in [Handlers -> Exec]
      /\ \A f \in Handlers \ {e} : exec'[f] = exec[f]
    BY <1>3 DEF IInv, TypeOK
<1>5. /\ UNCHANGED <<click, received, aborts, applied, disturbed>>
      /\ queue' \subseteq queue
      /\ card' \in {card, "buttons"}
    BY DEF Analyze, Register, PostCard, Pause, Done, clicksVars
<1>6. task' \in Task
    BY TaskRows DEF Analyze, Register, PostCard, Pause, IInv, TypeOK
<1>7. /\ thread' \in Thread
      /\ ~Decided => ThreadOK'
      /\ Decided => ThreadOK'
      /\ exec[e].pc \in Notifying /\ new.pc \in Notifying => thread' = thread
    <2>1. CASE Analyze(e)
        <3>1. /\ thread' = [thread EXCEPT !.next = "notify"]
              /\ thread.next = "none" /\ exec[e].pc = "analyze"
            BY <2>1 DEF Analyze, GoTo, IInv, ExecOK
        <3>2. thread' \in Thread /\ thread'.next = "notify"
              /\ thread'.decision = thread.decision
            BY <3>1 DEF IInv, TypeOK, Thread
        <3> QED BY <3>1, <3>2 DEF IInv, ThreadOK, Decided, Notifying
    <2>2. CASE Register(e) \/ PostCard(e)
        BY <1>5, <2>2 DEF Register, PostCard, IInv, TypeOK, ThreadOK, Decided, Clicked
    <2>3. CASE Pause(e)
        BY <1>3, <2>3 DEF Pause, Thread, ThreadOK, Decided, Notifying
    <2> QED BY <2>1, <2>2, <2>3
<1>8. TypeOK'
    BY <1>4, <1>5, <1>6, <1>7 DEF IInv, TypeOK
<1>9. ExecOK(e)'
    <2>1. new.pc \in Notifying /\ ~disturbed => thread'.next = "notify"
        <3>1. CASE exec[e].pc \in Notifying
            BY <1>7, <3>1 DEF IInv, ExecOK
        <3>2. CASE exec[e].pc = "analyze"
            BY <1>3, <3>2 DEF Register, PostCard, Pause, Analyze, GoTo, IInv, TypeOK,
                              Thread
        <3> QED BY <1>1, <3>1, <3>2
    <2> QED BY <1>3, <1>4, <1>5, <2>1 DEF ExecOK, Notifying, Applying
<1>10. AppliedOK' /\ CardOK'
    BY <1>2, <1>5 DEF AppliedOK, CardOK, Decisions
<1>11. card' = "none" => applied' = {}
    BY <1>5 DEF IInv, Quiet
<1> QED BY <1>1, <1>3, <1>4, <1>5, <1>7, <1>8, <1>9, <1>10, <1>11, OneExecution

-----------------------------------------------------------------------------
(* The executions a click resumes *)

\* What every resumed execution has in common: nothing but itself changes.
LEMMA ResumedExecution ==
    ASSUME IInv, NEW e \in Handlers, exec[e].pc = "checked",
           NEW new \in Exec, exec' = [exec EXCEPT ![e] = new],
           new.pc \in Notifying \cup {"idle", "finalize"},
           queue' \subseteq queue,
           UNCHANGED <<task, thread, card, click, received, aborts, applied,
                       disturbed>>,
           ExecOK(e)'
    PROVE  IInv'
<1>1. exec'[e] = new /\ \A f \in Handlers \ {e} : exec'[f] = exec[f]
    BY DEF IInv, TypeOK
<1>2. TypeOK' /\ ThreadOK' /\ Busy(e)
    BY DEF IInv, TypeOK, ThreadOK, Decided, Clicked, Busy
<1>3. card # "none"
    BY <1>2 DEF IInv, Quiet, Notifying
<1>4. ASSUME NEW d, Pending(d) PROVE Pending(d)'
    <2>1. PICK f \in Handlers : /\ exec[f].pc \in {"wrote", "closing"}
                               /\ ~exec[f].saved /\ exec[f].decision = d
        BY <1>4 DEF Pending
    <2>2. exec'[f] = exec[f]
        BY <1>1, <2>1
    <2> QED BY <2>1, <2>2 DEF Pending
<1>5. ASSUME NEW d, Committed(d) PROVE Committed(d)'
    BY <1>4, <1>5 DEF Committed, Decided
<1>6. AppliedOK' /\ CardOK'
    BY <1>5 DEF IInv, AppliedOK, CardOK
<1> QED BY <1>1, <1>2, <1>3, <1>6, OneExecution

LEMMA ResumedInv ==
    ASSUME IInv, NEW e \in Handlers,
           \/ ResumeAtNotify(e) \/ ResumeAtDecision(e)
           \/ ResumeAtFinalize(e) \/ ResumeAtEnd(e)
    PROVE  IInv'
<1>1. /\ exec[e] \in Exec /\ exec[e].pc = "checked" /\ ~exec[e].saved
      /\ exec[e].click \in Clicks /\ click[exec[e].click] \in Clicked
      /\ Clicked \subseteq Decisions
    BY ClickedType DEF ResumeAtNotify, ResumeAtDecision, ResumeAtFinalize, ResumeAtEnd,
           GoTo, IInv, ExecOK, TypeOK, Applying, Clicked
<1>2. /\ UNCHANGED <<task, thread, card, click, received, aborts, applied, disturbed>>
      /\ queue' \subseteq queue
    BY DEF ResumeAtNotify, ResumeAtDecision, ResumeAtFinalize, ResumeAtEnd, Done,
           clicksVars
<1>3. CASE ResumeAtNotify(e)
    <2> DEFINE new == [exec[e] EXCEPT !.pc = "notify"]
    <2>1. new \in Exec /\ new.pc = "notify" /\ ~new.saved
        BY <1>1 DEF Exec
    <2>2. exec' = [exec EXCEPT ![e] = new] /\ thread.next = "notify"
        BY <1>3 DEF ResumeAtNotify, GoTo
    <2>3. exec'[e] = new
        BY <2>2 DEF IInv, TypeOK
    <2>4. ExecOK(e)'
        BY <1>2, <2>1, <2>2, <2>3 DEF ExecOK, Notifying, Applying
    <2> QED BY <1>1, <1>2, <2>1, <2>2, <2>4, ResumedExecution DEF Notifying
<1>4. CASE ResumeAtDecision(e)
    <2> DEFINE new == [exec[e] EXCEPT !.pc = "finalize",
                                      !.decision = click[exec[e].click]]
    <2>1. /\ new \in Exec /\ new.pc = "finalize" /\ ~new.saved
          /\ new.decision \in Clicked
        BY <1>1 DEF Exec
    <2>2. exec' = [exec EXCEPT ![e] = new] /\ thread.next = "await_decision"
        BY <1>4 DEF ResumeAtDecision, ClickDecision
    <2>3. exec'[e] = new
        BY <2>2 DEF IInv, TypeOK
    <2>4. ExecOK(e)'
        BY <1>2, <2>1, <2>2, <2>3 DEF ExecOK, Notifying, Applying, Clicked
    <2> QED BY <1>1, <1>2, <2>1, <2>2, <2>4, ResumedExecution
<1>5. CASE ResumeAtFinalize(e)
    <2> DEFINE new == [exec[e] EXCEPT !.pc = "finalize",
                                      !.decision = thread.decision, !.saved = TRUE]
    <2>0. Decided /\ thread.decision \in Clicked
        BY <1>5 DEF ResumeAtFinalize, Decided, IInv, ThreadOK
    <2>1. /\ new \in Exec /\ new.pc = "finalize" /\ new.saved
          /\ new.decision = thread.decision
        BY <1>1, <2>0 DEF Exec
    <2>2. exec' = [exec EXCEPT ![e] = new]
        BY <1>5 DEF ResumeAtFinalize, StoredDecision
    <2>3. exec'[e] = new
        BY <2>2 DEF IInv, TypeOK
    <2>4. ExecOK(e)'
        BY <1>2, <2>0, <2>1, <2>2, <2>3
        DEF ExecOK, Notifying, Applying, Clicked, Decided
    <2> QED BY <1>1, <1>2, <2>1, <2>2, <2>4, ResumedExecution
<1>6. CASE ResumeAtEnd(e)
    <2>1. exec' = [exec EXCEPT ![e] = Idle] /\ Idle.pc = "idle" /\ ~Idle.saved
        BY <1>6 DEF ResumeAtEnd, Done, Idle
    <2>2. exec'[e] = Idle
        BY <2>1 DEF IInv, TypeOK
    <2>3. ExecOK(e)'
        BY <2>1, <2>2 DEF ExecOK, Notifying, Applying
    <2> QED BY <1>1, <1>2, <2>1, <2>3, IdleType, ResumedExecution
<1> QED BY <1>3, <1>4, <1>5, <1>6

-----------------------------------------------------------------------------
(* finalize *)

\* The decision is checkpointed, or the run ends: what was sent to Odoo is what
\* the checkpoint then holds.
LEMMA DecisionInv ==
    ASSUME IInv, NEW e \in Handlers, SaveDecision(e) \/ Finish(e)
    PROVE  IInv'
<1>1. /\ exec[e] \in Exec /\ exec[e].pc \in Applying /\ Busy(e)
      /\ exec[e].decision \in Clicked /\ Clicked \subseteq Decisions
    BY ClickedType DEF SaveDecision, Finish, Applying, Busy, IInv, ExecOK, TypeOK
<1>2. PICK new \in Exec :
        /\ exec' = [exec EXCEPT ![e] = new]
        /\ new.pc \in Applying \cup {"idle"}
        /\ IF new.pc = "idle" THEN ~new.saved
           ELSE new.saved /\ new.decision = exec[e].decision
    <2>1. CASE SaveDecision(e)
        <3> DEFINE new == [exec[e] EXCEPT !.saved = TRUE]
        <3>1. /\ new \in Exec /\ new.pc = exec[e].pc /\ new.saved
              /\ new.decision = exec[e].decision
            BY <1>1 DEF Exec
        <3>2. exec' = [exec EXCEPT ![e] = new]
            BY <2>1 DEF SaveDecision
        <3> QED BY <1>1, <3>1, <3>2 DEF Applying
    <2>2. CASE Finish(e)
        BY <2>2, IdleType DEF Finish, Done, Idle
    <2> QED BY <2>1, <2>2
<1>3. /\ thread'.next \in {"finalize", "end"}
      /\ thread'.decision = exec[e].decision
      /\ thread' \in Thread
    BY <1>1 DEF SaveDecision, Finish, Thread
<1>4. /\ UNCHANGED <<task, card, click, received, aborts, applied, disturbed>>
      /\ queue' \subseteq queue
    BY DEF SaveDecision, Finish, Done, clicksVars
<1>5. /\ exec'[e] = new /\ exec' \in [Handlers -> Exec]
      /\ \A f \in Handlers \ {e} : exec'[f] = exec[f]
    BY <1>2 DEF IInv, TypeOK
<1>6. TypeOK'
    BY <1>3, <1>4, <1>5 DEF IInv, TypeOK
<1>7. ThreadOK' /\ Decided'
    BY <1>1, <1>3, <1>4 DEF ThreadOK, Decided, Clicked
<1>8. ExecOK(e)'
    BY <1>1, <1>2, <1>3, <1>4, <1>5, <1>7 DEF ExecOK, Notifying, Applying, Clicked
<1>9. ASSUME NEW d, Committed(d), ~disturbed PROVE Committed(d)'
    BY <1>1, <1>3, <1>7, <1>9, Agrees DEF Committed
<1>10. AppliedOK' /\ CardOK'
    BY <1>4, <1>9 DEF IInv, AppliedOK, CardOK
<1>11. card # "none"
    BY <1>1 DEF IInv, Quiet, Applying, Notifying
<1> QED BY <1>1, <1>4, <1>5, <1>6, <1>7, <1>8, <1>10, <1>11, OneExecution

\* Odoo is called, and the card updated, with the decision the execution applies.
LEMMA ApplyInv ==
    ASSUME IInv, NEW e \in Handlers, WriteApproval(e) \/ UpdateCard(e)
    PROVE  IInv'
<1>1. /\ exec[e] \in Exec /\ exec[e].pc \in Applying /\ Busy(e)
      /\ exec[e].decision \in Clicked /\ Clicked \subseteq Decisions
    BY ClickedType DEF WriteApproval, UpdateCard, GoTo, Applying, Busy, IInv, ExecOK,
           TypeOK
<1>2. PICK new \in Exec :
        /\ exec' = [exec EXCEPT ![e] = new]
        /\ new.pc \in {"wrote", "closing"}
        /\ new.saved = exec[e].saved /\ new.decision = exec[e].decision
    <2>1. CASE WriteApproval(e)
        <3> DEFINE new == [exec[e] EXCEPT !.pc = "wrote"]
        <3>1. /\ new \in Exec /\ new.pc = "wrote" /\ new.saved = exec[e].saved
              /\ new.decision = exec[e].decision
            BY <1>1 DEF Exec
        <3>2. exec' = [exec EXCEPT ![e] = new]
            BY <2>1 DEF WriteApproval, GoTo
        <3> QED BY <3>1, <3>2
    <2>2. CASE UpdateCard(e)
        <3> DEFINE new == [exec[e] EXCEPT !.pc = "closing"]
        <3>1. /\ new \in Exec /\ new.pc = "closing" /\ new.saved = exec[e].saved
              /\ new.decision = exec[e].decision
            BY <1>1 DEF Exec
        <3>2. exec' = [exec EXCEPT ![e] = new]
            BY <2>2 DEF UpdateCard, GoTo
        <3> QED BY <3>1, <3>2
    <2> QED BY <2>1, <2>2
<1>3. UNCHANGED <<thread, click, queue, received, aborts, disturbed>>
    BY DEF WriteApproval, UpdateCard, clicksVars
<1>4. /\ exec'[e] = new /\ exec' \in [Handlers -> Exec]
      /\ \A f \in Handlers \ {e} : exec'[f] = exec[f]
    BY <1>2 DEF IInv, TypeOK
<1>5. /\ applied' \subseteq applied \cup {exec[e].decision}
      /\ card' \in {card, exec[e].decision}
    BY DEF WriteApproval, UpdateCard
<1>6. task' \in Task
    BY <1>1, TaskRows DEF WriteApproval, UpdateCard, IInv, TypeOK
<1>7. TypeOK' /\ ThreadOK'
    BY <1>1, <1>3, <1>4, <1>5, <1>6 DEF IInv, TypeOK, ThreadOK, Decided, Clicked
<1>8. ExecOK(e)'
    BY <1>1, <1>2, <1>3, <1>4 DEF IInv, ExecOK, Notifying, Applying, Clicked, Decided
<1>9. ASSUME ~disturbed
      PROVE  /\ Committed(new.decision)'
             /\ \A d \in applied : d = new.decision
             /\ card \in Decisions => card = new.decision
    <2>1. Committed(new.decision)'
        <3>1. CASE exec[e].saved
            BY <1>1, <1>2, <1>3, <1>9, <3>1 DEF IInv, ExecOK, Committed, Decided
        <3>2. CASE ~exec[e].saved
            BY <1>2, <1>4, <3>2 DEF Committed, Pending
        <3> QED BY <3>1, <3>2
    <2> QED BY <1>1, <1>2, <1>9, <2>1, Agrees DEF IInv, AppliedOK, CardOK
<1>10. AppliedOK' /\ CardOK'
    <2>1. CASE disturbed
        BY <1>3, <2>1 DEF AppliedOK, CardOK
    <2>2. CASE ~disturbed
        BY <1>2, <1>5, <1>9, <2>2 DEF AppliedOK, CardOK
    <2> QED BY <2>1, <2>2
<1>11. card # "none" /\ card' # "none"
    BY <1>1, <1>5 DEF IInv, Quiet, Applying, Notifying, Decisions
<1> QED BY <1>1, <1>3, <1>4, <1>7, <1>8, <1>10, <1>11, OneExecution

\* An execution that is cut short: the run is disturbed when Odoo was called with
\* a decision no checkpoint holds.
LEMMA AbortInv ==
    ASSUME IInv, NEW e \in Handlers, Abort(e)
    PROVE  IInv'
<1>1. /\ exec' = [exec EXCEPT ![e] = Idle] /\ Busy(e)
      /\ aborts' \in 0..MaxAborts
      /\ UNCHANGED <<task, thread, card, click, queue, received, applied>>
      /\ disturbed' = (disturbed \/ /\ exec[e].pc \in {"wrote", "closing"}
                                    /\ ~exec[e].saved)
    BY ApprovalAssumption DEF Abort, LeftForRetry, Busy, IInv, TypeOK
<1>2. /\ exec'[e] = Idle /\ exec' \in [Handlers -> Exec]
      /\ \A f \in Handlers \ {e} : exec'[f] = exec[f]
      /\ Idle.pc = "idle" /\ ~Idle.saved
    BY <1>1, IdleType DEF IInv, TypeOK, Idle
<1>3. disturbed' \in BOOLEAN
    BY <1>1 DEF IInv, TypeOK
<1>4. TypeOK' /\ ThreadOK'
    BY <1>1, <1>2, <1>3 DEF IInv, TypeOK, ThreadOK, Decided, Clicked
<1>5. ExecOK(e)'
    BY <1>2 DEF ExecOK, Notifying, Applying
<1>6. ASSUME NEW d, Pending(d), ~disturbed' PROVE Pending(d)'
    <2>1. PICK f \in Handlers : /\ exec[f].pc \in {"wrote", "closing"}
                               /\ ~exec[f].saved /\ exec[f].decision = d
        BY <1>6 DEF Pending
    <2>2. f # e
        BY <1>1, <1>6, <2>1
    <2> QED BY <1>2, <2>1, <2>2 DEF Pending
<1>7. ASSUME NEW d, Committed(d), ~disturbed' PROVE Committed(d)'
    BY <1>1, <1>6, <1>7 DEF Committed, Decided
<1>8. AppliedOK' /\ CardOK'
    BY <1>1, <1>7 DEF IInv, AppliedOK, CardOK
<1>9. card' = "none" => applied' = {}
    BY <1>1 DEF IInv, Quiet
<1> QED BY <1>1, <1>2, <1>4, <1>5, <1>8, <1>9, OneExecution

-----------------------------------------------------------------------------
(* Clicks, time, and Odoo *)

\* A click adds to what was clicked.
LEMMA ClickInv ==
    ASSUME IInv, NEW c \in Clicks, NEW d \in Decisions, ManagerClicks(c, d)
    PROVE  IInv'
<1>1. /\ click' = [click EXCEPT ![c] = d] /\ click[c] = "undecided"
      /\ queue' = queue \cup {c} /\ card # "none"
      /\ UNCHANGED <<task, thread, card, received, exec, aborts, applied, disturbed>>
    BY DEF ManagerClicks
<1>2. /\ click'[c] = d /\ d # "undecided"
      /\ click' \in [Clicks -> Decisions \cup {"undecided"}]
      /\ \A b \in Clicks \ {c} : click'[b] = click[b]
    BY <1>1 DEF IInv, TypeOK, Decisions
<1>3. TypeOK' /\ QueueOK'
    BY <1>1, <1>2 DEF IInv, TypeOK, QueueOK
<1>4. ASSUME NEW x \in Clicked PROVE x \in Clicked'
    <2>1. PICK b \in Clicks : click[b] = x /\ x # "undecided"
        BY <1>4 DEF Clicked
    <2>2. click'[b] = x
        BY <1>1, <1>2, <2>1
    <2> QED BY <2>1, <2>2 DEF Clicked
<1>5. ThreadOK'
    BY <1>1, <1>4 DEF IInv, ThreadOK, Decided
<1>6. ASSUME NEW f \in Handlers PROVE ExecOK(f)'
    BY <1>1, <1>2, <1>4 DEF IInv, ExecOK, Decided
<1>7. /\ Quiet' /\ Alone' /\ AppliedOK' /\ CardOK'
    BY <1>1 DEF IInv, Quiet, Alone, AppliedOK, CardOK, Committed, Pending, Decided, Busy
<1> QED BY <1>3, <1>5, <1>6, <1>7 DEF IInv

\* A received message is one that a manager clicked.
LEMMA ReceivedInv ==
    ASSUME IInv, NEW c \in Clicks, Receivable(c),
           received' = [received EXCEPT ![c] = @ + 1]
    PROVE  /\ received' \in [Clicks -> 0..MaxReceives]
           /\ click[c] # "undecided" /\ card # "none"
<1>1. received[c] \in 0..MaxReceives /\ received[c] < MaxReceives /\ c \in queue
    BY DEF Receivable, IInv, TypeOK
<1>2. received[c] + 1 \in 0..MaxReceives
    BY <1>1, ApprovalAssumption
<1> QED BY <1>1, <1>2 DEF IInv, TypeOK, QueueOK, Quiet

\* A click resumes the thread: another execution under way makes it disturbed.
LEMMA ResumeInv ==
    ASSUME IInv, NEW e \in Handlers, NEW c \in Clicks, Resume(e, c)
    PROVE  IInv'
<1> DEFINE new == [Idle EXCEPT !.pc = "checked", !.click = c]
<1>1. /\ exec' = [exec EXCEPT ![e] = new] /\ exec[e].pc = "idle"
      /\ disturbed' = (disturbed \/ Active # {})
      /\ UNCHANGED <<task, thread, card, click, queue, aborts, applied>>
    BY DEF Resume
<1>2. /\ new \in Exec /\ new.pc = "checked" /\ new.click = c
      /\ ~new.saved
    BY DEF Idle, Exec
<1> HIDE DEF new
<1>3. /\ exec'[e] = new /\ exec' \in [Handlers -> Exec]
      /\ \A f \in Handlers \ {e} : exec'[f] = exec[f]
    BY <1>1, <1>2 DEF IInv, TypeOK
<1>4. /\ received' \in [Clicks -> 0..MaxReceives]
      /\ click[c] # "undecided" /\ card # "none"
    BY ReceivedInv DEF Resume
<1>5. disturbed' \in BOOLEAN
    BY <1>1 DEF IInv, TypeOK
<1>6. TypeOK' /\ ThreadOK' /\ QueueOK' /\ Quiet'
    BY <1>1, <1>3, <1>4, <1>5
    DEF IInv, TypeOK, ThreadOK, QueueOK, Quiet, Decided, Clicked
<1>7. ~disturbed' => ~disturbed /\ \A f \in Handlers : ~Busy(f)
    BY <1>1 DEF Active, Busy
<1>8. Alone'
    BY <1>3, <1>7 DEF Alone, Busy
<1>9. ASSUME NEW f \in Handlers PROVE ExecOK(f)'
    <2>1. CASE f = e
        BY <1>1, <1>2, <1>3, <1>4, <2>1 DEF ExecOK, Notifying, Applying
    <2>2. CASE f # e
        BY <1>1, <1>3, <1>7, <2>2 DEF IInv, ExecOK, Decided, Clicked
    <2> QED BY <2>1, <2>2
<1>10. ASSUME NEW d, ~disturbed', Committed(d) PROVE Committed(d)'
    BY <1>1, <1>7, <1>10 DEF Committed, Pending, Decided, Busy
<1>11. AppliedOK' /\ CardOK'
    BY <1>1, <1>7, <1>10 DEF IInv, AppliedOK, CardOK
<1> QED BY <1>6, <1>8, <1>9, <1>11 DEF IInv

LEMMA RefuseInv ==
    ASSUME IInv, NEW c \in Clicks, RefuseResume(c)
    PROVE  IInv'
<1>1. /\ queue' \subseteq queue
      /\ UNCHANGED <<task, thread, card, click, exec, aborts, applied, disturbed>>
    BY DEF RefuseResume
<1>2. received' \in [Clicks -> 0..MaxReceives]
    BY ReceivedInv DEF RefuseResume
<1>3. TypeOK' /\ ThreadOK' /\ QueueOK' /\ Quiet' /\ Alone'
    BY <1>1, <1>2 DEF IInv, TypeOK, ThreadOK, QueueOK, Quiet, Alone, Busy, Decided, Clicked
<1>4. \A f \in Handlers : ExecOK(f)'
    BY <1>1 DEF IInv, ExecOK, Decided, Clicked
<1>5. AppliedOK' /\ CardOK'
    BY <1>1 DEF IInv, AppliedOK, CardOK, Committed, Pending, Decided
<1> QED BY <1>3, <1>4, <1>5 DEF IInv

\* The checkpoint expires when no execution is under way.
LEMMA ExpireInv ==
    ASSUME IInv, CheckpointExpires
    PROVE  IInv'
<1>1. /\ thread' = [next |-> "none", decision |-> "undecided"]
      /\ \A f \in Handlers : ~Busy(f)
      /\ UNCHANGED <<task, card, exec, queue, click, received, aborts, applied, disturbed>>
    BY DEF CheckpointExpires, Active, Busy, clicksVars
<1>2. /\ thread' \in Thread /\ thread'.next = "none" /\ thread'.decision = "undecided"
    BY <1>1 DEF Thread
<1>3. TypeOK' /\ ThreadOK' /\ QueueOK' /\ Quiet' /\ Alone'
    BY <1>1, <1>2 DEF IInv, TypeOK, ThreadOK, QueueOK, Quiet, Alone, Busy, Decided
<1>4. \A f \in Handlers : ExecOK(f)'
    BY <1>1 DEF IInv, ExecOK, Busy, Notifying, Applying
<1>5. AppliedOK' /\ CardOK'
    BY <1>1, <1>2 DEF IInv, AppliedOK, CardOK, Committed
<1> QED BY <1>3, <1>4, <1>5 DEF IInv

\* Odoo's own steps only touch the task.
LEMMA OdooInv ==
    ASSUME IInv, OdooStep
    PROVE  IInv'
<1>1. UNCHANGED <<thread, card, click, queue, received, exec, aborts, applied, disturbed>>
    BY DEF OdooStep, clicksVars
<1>2. task' \in Task
    BY TaskRows DEF OdooStep, IInv, TypeOK
<1>3. TypeOK' /\ ThreadOK' /\ QueueOK' /\ Quiet' /\ Alone'
    BY <1>1, <1>2 DEF IInv, TypeOK, ThreadOK, QueueOK, Quiet, Alone, Busy, Decided, Clicked
<1>4. \A f \in Handlers : ExecOK(f)'
    BY <1>1 DEF IInv, ExecOK, Decided, Clicked
<1>5. AppliedOK' /\ CardOK'
    BY <1>1 DEF IInv, AppliedOK, CardOK, Committed, Pending, Decided
<1> QED BY <1>3, <1>4, <1>5 DEF IInv

-----------------------------------------------------------------------------
(* The invariant *)

LEMMA InitIInv == Init => IInv
<1> SUFFICES ASSUME Init PROVE IInv
    OBVIOUS
<1>1. PICK one \in Handlers :
        exec = [h \in Handlers |-> IF h = one THEN [Idle EXCEPT !.pc = "analyze"]
                                              ELSE Idle]
    BY DEF Init
<1> DEFINE first == [Idle EXCEPT !.pc = "analyze"]
<1>2. first \in Exec /\ first.pc = "analyze" /\ ~first.saved
    BY DEF Idle, Exec
<1>3. exec[one] = first /\ \A f \in Handlers \ {one} : exec[f] = Idle
    BY <1>1
<1> HIDE DEF first
<1>4. Idle.pc = "idle" /\ ~Idle.saved
    BY DEF Idle
<1>5. exec \in [Handlers -> Exec]
    BY <1>1, <1>2, IdleType DEF first
<1>6. TypeOK
    <2>1. task \in Task /\ thread \in Thread
        BY TaskRows DEF Init, Thread
    <2>2. /\ 0 \in 0..MaxReceives /\ 0 \in 0..MaxAborts
        BY ApprovalAssumption
    <2>3. /\ click \in [Clicks -> Decisions \cup {"undecided"}]
          /\ received \in [Clicks -> 0..MaxReceives]
        BY <2>2 DEF Init
    <2> QED BY <1>5, <2>1, <2>2, <2>3 DEF Init, TypeOK
<1>7. \A f \in Handlers : ExecOK(f)
    BY <1>2, <1>3, <1>4 DEF Init, ExecOK, Notifying, Applying
<1>8. Quiet /\ Alone
    BY <1>2, <1>3, <1>4 DEF Init, Quiet, Alone, Busy
<1>9. QueueOK /\ ThreadOK /\ AppliedOK /\ CardOK
    BY DEF Init, QueueOK, ThreadOK, Decided, AppliedOK, CardOK, Decisions
<1> QED BY <1>6, <1>7, <1>8, <1>9 DEF IInv

LEMMA StutterIInv ==
    ASSUME IInv, UNCHANGED vars
    PROVE  IInv'
<1>1. UNCHANGED <<task, thread, card, click, queue, received, exec, aborts, applied, disturbed>>
    BY DEF vars
<1>2. TypeOK' /\ ThreadOK' /\ QueueOK' /\ Quiet' /\ Alone'
    BY <1>1 DEF IInv, TypeOK, ThreadOK, QueueOK, Quiet, Alone, Busy, Decided, Clicked
<1>3. \A f \in Handlers : ExecOK(f)'
    BY <1>1 DEF IInv, ExecOK, Decided, Clicked
<1>4. AppliedOK' /\ CardOK'
    BY <1>1 DEF IInv, AppliedOK, CardOK, Committed, Pending, Decided
<1> QED BY <1>2, <1>3, <1>4 DEF IInv

LEMMA NextIInv == IInv /\ [Next]_vars => IInv'
<1> SUFFICES ASSUME IInv, [Next]_vars PROVE IInv'
    OBVIOUS
<1>1. CASE \E e \in Handlers : Step(e) \/ Abort(e)
    BY <1>1, NotifyInv, ResumedInv, DecisionInv, ApplyInv, AbortInv DEF Step
<1>2. CASE \E c \in Clicks : Deliver(c)
    BY <1>2, RefuseInv, ResumeInv DEF Deliver
<1>3. CASE \E c \in Clicks, d \in Decisions : ManagerClicks(c, d)
    BY <1>3, ClickInv
<1>4. CASE CheckpointExpires \/ OdooStep
    BY <1>4, ExpireInv, OdooInv
<1>5. CASE UNCHANGED vars
    BY <1>5, StutterIInv
<1> QED BY <1>1, <1>2, <1>3, <1>4, <1>5 DEF Next

\* The strengthening of the properties below.
THEOREM Invariance == Spec => []IInv
BY InitIInv, NextIInv, PTL DEF Spec

\* Type correctness of the graph's run and its clicks.
THEOREM TypeCorrect == Spec => []TypeOK
<1>1. IInv => TypeOK
    BY DEF IInv
<1> QED BY <1>1, Invariance, PTL

\* Odoo never commits two decisions of a run whose clicks are handled one after
\* the other (resume, finalize).
THEOREM SerialDecisions == Spec => []SerialDecisionsAgree
<1>1. IInv => SerialDecisionsAgree
    <2> SUFFICES ASSUME IInv, ~disturbed PROVE Cardinality(applied) <= 1
        BY DEF SerialDecisionsAgree
    <2>1. CASE applied = {}
        BY <2>1, FS_EmptySet
    <2>2. CASE applied # {}
        <3>1. PICK d : applied = {d}
            BY <2>2 DEF IInv, AppliedOK
        <3> QED BY <3>1, FS_Singleton
    <2> QED BY <2>1, <2>2
<1> QED BY <1>1, Invariance, PTL

\* The card of such a run never shows another decision than Odoo committed.
THEOREM CardsAgree == Spec => []CardAgrees
<1>1. IInv => CardAgrees
    BY DEF IInv, CardOK, CardAgrees
<1> QED BY <1>1, Invariance, PTL

-----------------------------------------------------------------------------
(* What a step may never do *)

\* A message is deleted only once its click is of no more use: Finish has
\* checkpointed a decision, RefuseResume and ResumeAtEnd found the run closed,
\* or Pause has posted the card again.
THEOREM ClicksUsed == Spec => ClicksAreUsed
<1>1. IInv /\ [Next]_vars =>
        \A c \in queue \ queue' :
            \/ thread'.decision # "undecided"
            \/ Closed
            \/ \E e \in Handlers : exec[e].click = c /\ exec[e].pc = "noted"
    <2> SUFFICES ASSUME IInv, [Next]_vars, NEW c \in queue \ queue'
                 PROVE  \/ thread'.decision # "undecided"
                        \/ Closed
                        \/ \E e \in Handlers : exec[e].click = c /\ exec[e].pc = "noted"
        OBVIOUS
    <2>1. CASE \E b \in Clicks : Deliver(b)
        BY <2>1 DEF Deliver, RefuseResume, Resume, Paused, Closed
    <2>2. ASSUME NEW e \in Handlers, Finish(e) PROVE thread'.decision # "undecided"
        BY <2>2 DEF Finish, IInv, ExecOK, Applying, Clicked
    <2>3. ASSUME NEW e \in Handlers, Pause(e)
          PROVE  exec[e].click = c /\ exec[e].pc = "noted"
        BY <2>3 DEF Pause, Done
    <2>4. ASSUME NEW e \in Handlers, ResumeAtEnd(e) PROVE Closed
        BY <2>4 DEF ResumeAtEnd, Closed
    <2>5. ASSUME NEW e \in Handlers, Step(e) \/ Abort(e)
          PROVE  Finish(e) \/ Pause(e) \/ ResumeAtEnd(e)
        BY <2>5
        DEF Step, Analyze, Register, PostCard, ResumeAtNotify, ResumeAtDecision,
            ResumeAtFinalize, SaveDecision, WriteApproval, UpdateCard, Abort,
            LeftForRetry
    <2>6. CASE \/ \E b \in Clicks, d \in Decisions : ManagerClicks(b, d)
               \/ CheckpointExpires \/ OdooStep \/ UNCHANGED vars
        BY <2>6 DEF ManagerClicks, CheckpointExpires, OdooStep, vars
    <2> QED BY <2>1, <2>2, <2>3, <2>4, <2>5, <2>6 DEF Next
<1> QED BY <1>1, Invariance, PTL DEF Spec, ClicksAreUsed

\* An execution under way, which every Step and Abort needs, is not over.
LEMMA StepsAreBusy ==
    ASSUME NEW e \in Handlers, Step(e) \/ Abort(e)
    PROVE  Busy(e) /\ e \in Active /\ ~Over
<1>1. Busy(e)
    BY DEF Step, Analyze, Register, PostCard, Pause, ResumeAtNotify, ResumeAtDecision,
           ResumeAtFinalize, ResumeAtEnd, SaveDecision, WriteApproval, UpdateCard,
           Finish, Abort, GoTo, Busy
<1> QED BY <1>1 DEF Busy, Active, Over

\* No click brings back a run that is over: without a card nobody has clicked,
\* and a closed thread is not resumed.
THEOREM OverStaysOver == Spec => OverForGood
<1>1. ASSUME IInv, [Next]_vars, Over
      PROVE  Over' /\ UNCHANGED applied
    <2>1. ASSUME NEW c \in Clicks, NEW e \in Handlers, Resume(e, c) PROVE FALSE
        BY <1>1, <2>1 DEF Resume, Receivable, Paused, Over, Closed, IInv, Quiet
    <2>2. CASE \E c \in Clicks : RefuseResume(c)
        BY <1>1, <2>2 DEF RefuseResume, Over, Closed, Active
    <2>3. CASE \E c \in Clicks, d \in Decisions : ManagerClicks(c, d)
        BY <1>1, <2>3 DEF ManagerClicks, Over, Closed, Active
    <2>4. CASE CheckpointExpires
        BY <1>1, <2>4 DEF CheckpointExpires, Over, Closed, Active
    <2>5. CASE OdooStep \/ UNCHANGED vars
        BY <1>1, <2>5 DEF OdooStep, vars, Over, Closed, Active
    <2> QED BY <1>1, <2>1, <2>2, <2>3, <2>4, <2>5, StepsAreBusy DEF Next, Deliver
<1> QED BY <1>1, Invariance, PTL DEF Spec, OverForGood

-----------------------------------------------------------------------------
(* The contract *)

\* Where the run is in the eyes of Odoo.
AbsPc == IF Over THEN "over"
         ELSE IF card = "none" /\ \E e \in Handlers :
                                     exec[e].pc \in {"analyze", "notify"}
              THEN "analyzing"
              ELSE "waiting"

\* A step of an execution that goes on, once the card was posted.
LEMMA GoesOn ==
    ASSUME IInv, NEW e \in Handlers, Busy(e), card # "none", card' # "none",
           Busy(e)'
    PROVE  AbsPc = "waiting" /\ AbsPc' = "waiting"
BY DEF AbsPc, Over, Active, Busy

\* A step that ends an execution.
LEMMA EndsExecution ==
    ASSUME IInv, NEW e \in Handlers, Busy(e), exec[e].pc \notin {"analyze", "notify"},
           exec' = [exec EXCEPT ![e] = Idle], UNCHANGED card
    PROVE  AbsPc = "waiting" /\ AbsPc' \in {"waiting", "over"}
<1>1. \A f \in Handlers \ {e} : exec'[f] = exec[f]
    BY DEF IInv, TypeOK
<1>2. exec'[e].pc = "idle"
    BY DEF IInv, TypeOK, Idle
<1>3. CASE card = "none"
    BY <1>1, <1>2, <1>3 DEF IInv, Quiet, AbsPc, Over, Active, Busy
<1>4. CASE card # "none"
    BY <1>4 DEF AbsPc, Over, Active, Busy
<1> QED BY <1>3, <1>4

\* The steps up to the pause: the first card makes the run wait.
LEMMA NotifySteps ==
    ASSUME IInv, NEW e \in Handlers, Analyze(e) \/ Register(e) \/ PostCard(e) \/ Pause(e)
    PROVE  [Contract!Next]_(Contract!vars)
<1>1. /\ Busy(e) /\ ~Over /\ Clicked' = Clicked
      /\ exec[e] \in Exec
    BY StepsAreBusy
    DEF Step, Analyze, Register, PostCard, Pause, clicksVars, Clicked, IInv, TypeOK
<1>2. CASE Analyze(e)
    <2>1. exec'[e].pc = "notify" /\ exec[e].pc = "analyze"
        BY <1>2 DEF Analyze, GoTo, IInv, TypeOK, Exec
    <2>2. card = "none" /\ card' = "none" /\ task' = task
        BY <1>2, <2>1 DEF Analyze, IInv, ExecOK
    <2>3. AbsPc = "analyzing" /\ AbsPc' = "analyzing"
        BY <1>1, <2>1, <2>2 DEF AbsPc, Over, Active, Busy
    <2> QED BY <1>1, <2>2, <2>3 DEF Contract!vars, AbsPc, Clicked
<1>3. CASE Register(e) \/ PostCard(e)
    <2>1. /\ exec'[e].pc \in {"card", "noted"}
          /\ exec[e].pc \in {"notify", "card"}
          /\ \A f \in Handlers \ {e} : exec'[f] = exec[f]
          /\ card' \in {card, "buttons"}
        BY <1>3 DEF Register, PostCard, GoTo, IInv, TypeOK, Exec
    <2>2. AbsPc' = "waiting"
        BY <1>1, <2>1 DEF IInv, Quiet, AbsPc, Over, Active, Busy
    <2>3. AbsPc \in {"analyzing", "waiting"}
        BY <1>1 DEF AbsPc
    <2>4. CASE Register(e)
        <3>1. (Exists(task) /\ task' = RegisteredTask(task)) \/ UNCHANGED task
            BY <2>4 DEF Register
        <3>2. Contract!Notify
            <4>1. (Contract!Exists(task) /\ task' = Contract!RegisteredTask(task))
                  \/ UNCHANGED task
                BY <3>1 DEF Exists, RegisteredTask, Contract!Exists, Contract!RegisteredTask
            <4> QED BY <1>1, <2>2, <2>3, <4>1 DEF Contract!Notify, AbsPc, Clicked
        <3> QED BY <3>2 DEF Contract!Next
    <2>5. CASE PostCard(e)
        <3>1. exec[e].pc = "card" /\ task' = task
            BY <2>5 DEF PostCard, GoTo
        <3>2. AbsPc = "waiting"
            BY <1>1, <3>1 DEF IInv, Quiet, AbsPc, Busy
        <3> QED BY <1>1, <2>2, <3>1, <3>2 DEF Contract!vars, AbsPc, Clicked
    <2> QED BY <1>3, <2>4, <2>5
<1>4. CASE Pause(e)
    <2>1. AbsPc = "waiting" /\ AbsPc' \in {"waiting", "over"} /\ task' = task
        BY <1>1, <1>4, EndsExecution DEF Pause, Done
    <2>2. CASE AbsPc' = "over"
        BY <1>1, <2>1, <2>2 DEF Contract!Next, Contract!Die, AbsPc, Clicked
    <2>3. CASE AbsPc' = "waiting"
        BY <1>1, <2>1, <2>3 DEF Contract!vars, AbsPc, Clicked
    <2> QED BY <2>1, <2>2, <2>3
<1> QED BY <1>2, <1>3, <1>4

\* The steps of a resumed execution: Odoo is told what a manager clicked.
LEMMA ResumedSteps ==
    ASSUME IInv, NEW e \in Handlers,
           \/ ResumeAtNotify(e) \/ ResumeAtDecision(e) \/ ResumeAtFinalize(e)
           \/ ResumeAtEnd(e) \/ SaveDecision(e) \/ WriteApproval(e)
           \/ UpdateCard(e) \/ Finish(e)
    PROVE  [Contract!Next]_(Contract!vars)
<1>1. /\ Busy(e) /\ ~Over /\ Clicked' = Clicked
      /\ exec[e] \in Exec /\ exec[e].pc \in {"checked"} \cup Applying
    BY StepsAreBusy
    DEF Step, ResumeAtNotify, ResumeAtDecision, ResumeAtFinalize, ResumeAtEnd,
        SaveDecision, WriteApproval, UpdateCard, Finish, GoTo, Applying, clicksVars,
        Clicked, IInv, TypeOK
<1>2. card # "none"
    BY <1>1 DEF IInv, Quiet, Notifying, Applying
<1>3. CASE ResumeAtEnd(e) \/ Finish(e)
    <2>1. /\ exec' = [exec EXCEPT ![e] = Idle] /\ UNCHANGED <<card, task>>
          /\ exec[e].pc \notin {"analyze", "notify"}
        BY <1>1, <1>3 DEF ResumeAtEnd, Finish, Done, Applying
    <2>2. AbsPc = "waiting" /\ AbsPc' \in {"waiting", "over"}
        BY <1>1, <2>1, EndsExecution
    <2>3. CASE AbsPc' = "over"
        BY <1>1, <2>1, <2>2, <2>3 DEF Contract!Next, Contract!Die, AbsPc, Clicked
    <2>4. CASE AbsPc' = "waiting"
        BY <1>1, <2>1, <2>2, <2>4 DEF Contract!vars, AbsPc, Clicked
    <2> QED BY <2>2, <2>3, <2>4
<1>4. CASE ~(ResumeAtEnd(e) \/ Finish(e))
    <2>1. Busy(e)' /\ card' # "none"
        <3>1. CASE ResumeAtNotify(e) \/ WriteApproval(e)
            BY <1>1, <1>2, <3>1 DEF ResumeAtNotify, WriteApproval, GoTo, Busy, IInv, TypeOK,
                                    Exec
        <3>2. CASE UpdateCard(e)
            <4>1. exec[e].decision # "none"
                BY <1>1, <3>2, ClickedType
                DEF UpdateCard, GoTo, IInv, ExecOK, Applying, Decisions
            <4> QED BY <1>1, <1>2, <3>2, <4>1 DEF UpdateCard, GoTo, Busy, IInv, TypeOK, Exec
        <3>3. CASE ResumeAtDecision(e) \/ ResumeAtFinalize(e) \/ SaveDecision(e)
            BY <1>1, <1>2, <3>3
            DEF ResumeAtDecision, ResumeAtFinalize, SaveDecision, Busy, IInv, TypeOK, Exec
        <3> QED BY <1>4, <3>1, <3>2, <3>3
    <2>2. AbsPc = "waiting" /\ AbsPc' = "waiting"
        BY <1>1, <1>2, <2>1, GoesOn
    <2>3. CASE task' = task
        BY <1>1, <2>2, <2>3 DEF Contract!vars, AbsPc, Clicked
    <2>4. CASE task' # task
        <3>0. PICK d \in Decisions : d = exec[e].decision /\ d \in Clicked
            BY <1>4, <2>4, ClickedType
            DEF ResumeAtNotify, ResumeAtDecision, ResumeAtFinalize, SaveDecision,
                WriteApproval, UpdateCard, GoTo, IInv, ExecOK, Applying
        <3>1. /\ exec[e].pc = "finalize"
              /\ Exists(task) /\ task' = DecidedTask(task, d)
            BY <1>4, <2>4, <3>0
            DEF ResumeAtNotify, ResumeAtDecision, ResumeAtFinalize, SaveDecision,
                WriteApproval, UpdateCard, GoTo
        <3>2. Contract!Exists(task) /\ task' = Contract!DecidedTask(task, d)
            BY <3>1 DEF Exists, DecidedTask, Contract!Exists, Contract!DecidedTask
        <3>3. Contract!Decide(d)
            BY <1>1, <2>2, <3>0, <3>2 DEF Contract!Decide, AbsPc, Clicked
        <3>4. d \in Contract!Decisions
            BY DEF Decisions, Contract!Decisions
        <3> QED BY <3>3, <3>4 DEF Contract!Next
    <2> QED BY <2>3, <2>4
<1> QED BY <1>3, <1>4

\* Clicks, messages, failures, and Odoo's own steps.
LEMMA OtherSteps ==
    ASSUME IInv,
           \/ \E e \in Handlers : Abort(e)
           \/ \E c \in Clicks : Deliver(c)
           \/ \E c \in Clicks, d \in Decisions : ManagerClicks(c, d)
           \/ CheckpointExpires \/ OdooStep \/ UNCHANGED vars
    PROVE  [Contract!Next]_(Contract!vars)
<1>1. ASSUME NEW e \in Handlers, Abort(e) PROVE [Contract!Next]_(Contract!vars)
    <2>1. /\ exec' = [exec EXCEPT ![e] = Idle] /\ UNCHANGED <<card, task>>
          /\ Busy(e) /\ ~Over /\ Clicked' = Clicked
        BY <1>1, StepsAreBusy DEF Abort, Clicked
    <2>2. \A f \in Handlers \ {e} : exec'[f] = exec[f]
        BY <2>1 DEF IInv, TypeOK
    <2>3. exec'[e].pc = "idle"
        BY <2>1 DEF IInv, TypeOK, Idle
    <2>4. AbsPc \in {"analyzing", "waiting"} /\ AbsPc' \in {"waiting", "over"}
          /\ (AbsPc' = "waiting" => AbsPc = "waiting")
        <3>1. CASE card = "none"
            BY <2>1, <2>2, <2>3, <3>1 DEF IInv, Quiet, AbsPc, Over, Active, Busy
        <3>2. CASE card # "none"
            BY <2>1, <3>2 DEF AbsPc
        <3> QED BY <3>1, <3>2
    <2>5. CASE AbsPc' = "over"
        BY <2>1, <2>4, <2>5 DEF Contract!Next, Contract!Die, AbsPc, Clicked
    <2>6. CASE AbsPc' = "waiting"
        BY <2>1, <2>4, <2>6 DEF Contract!vars, AbsPc, Clicked
    <2> QED BY <2>4, <2>5, <2>6
<1>2. ASSUME NEW c \in Clicks, RefuseResume(c) PROVE [Contract!Next]_(Contract!vars)
    BY <1>2 DEF RefuseResume, Contract!vars, Over, Active, Closed
<1>3. ASSUME NEW c \in Clicks, NEW e \in Handlers, Resume(e, c)
      PROVE  [Contract!Next]_(Contract!vars)
    <2>1. /\ card # "none" /\ ~Over /\ UNCHANGED <<task, thread, card>>
          /\ Clicked' = Clicked
        BY <1>3 DEF Resume, Receivable, Paused, Over, Closed, IInv, Quiet, Clicked
    <2>2. AbsPc = "waiting" /\ AbsPc' = "waiting"
        BY <1>3, <2>1 DEF Resume, Paused, AbsPc, Over, Closed
    <2> QED BY <2>1, <2>2 DEF Contract!vars, AbsPc, Clicked
<1>4. ASSUME NEW c \in Clicks, NEW d \in Decisions, ManagerClicks(c, d)
      PROVE  [Contract!Next]_(Contract!vars)
    <2>1. /\ card # "none" /\ UNCHANGED <<task, thread, card, exec>>
          /\ click' = [click EXCEPT ![c] = d] /\ click[c] = "undecided"
        BY <1>4 DEF ManagerClicks
    <2>2. AbsPc' = AbsPc /\ AbsPc # "analyzing"
        BY <2>1 DEF AbsPc, Over, Active, Closed
    <2>3. /\ click'[c] = d /\ d # "undecided"
          /\ \A b \in Clicks \ {c} : click'[b] = click[b]
        BY <2>1 DEF IInv, TypeOK, Decisions
    <2>4. Clicked' = Clicked \cup {d}
        <3>1. ASSUME NEW x \in Clicked' PROVE x \in Clicked \cup {d}
            BY <2>3, <3>1 DEF Clicked
        <3>2. ASSUME NEW x \in Clicked PROVE x \in Clicked'
            <4>1. PICK b \in Clicks : click[b] = x /\ x # "undecided"
                BY <3>2 DEF Clicked
            <4>2. click'[b] = x
                BY <2>1, <2>3, <4>1
            <4> QED BY <4>1, <4>2 DEF Clicked
        <3>3. d \in Clicked'
            BY <2>3 DEF Clicked
        <3> QED BY <3>1, <3>2, <3>3
    <2>5. Contract!Click(d)
        BY <2>1, <2>2, <2>4 DEF Contract!Click, AbsPc, Clicked
    <2>6. d \in Contract!Decisions
        BY DEF Decisions, Contract!Decisions
    <2> QED BY <2>5, <2>6 DEF Contract!Next
<1>5. CASE CheckpointExpires
    <2>1. /\ Active = {} /\ Over' /\ UNCHANGED <<task, click>>
        BY <1>5 DEF CheckpointExpires, clicksVars, Over, Active, Closed
    <2>2. AbsPc \in {"waiting", "over"} /\ AbsPc' = "over" /\ Clicked' = Clicked
        BY <2>1 DEF AbsPc, Active, Clicked
    <2>3. CASE AbsPc = "over"
        BY <2>1, <2>2, <2>3 DEF Contract!vars, AbsPc, Clicked
    <2>4. CASE AbsPc = "waiting"
        BY <2>1, <2>2, <2>4 DEF Contract!Next, Contract!Die, AbsPc, Clicked
    <2> QED BY <2>2, <2>3, <2>4
<1>6. CASE OdooStep
    <2>1. AbsPc' = AbsPc /\ Clicked' = Clicked
        BY <1>6 DEF OdooStep, clicksVars, AbsPc, Over, Active, Closed, Clicked
    <2>2. \/ /\ ~Contract!Exists(task)
             /\ \E o \in Orders, answered \in BOOLEAN :
                   task' = Contract!DispatchedTask(
                               Contract!NewTask(o, "high", "queued", TRUE), answered)
          \/ /\ task.state = "pending_approval"
             /\ \E d \in Contract!Decisions : task' = Contract!DecidedTask(task, d)
          \/ /\ Contract!Expirable(task)
             /\ task' = Contract!ExpiredTask(task)
          \/ /\ task.state \in {"queued", "failed"}
             /\ task' = Contract!DispatchedTask(task, TRUE)
        BY <1>6
        DEF OdooStep, Exists, Expirable, NewTask, DispatchedTask, DecidedTask,
            ExpiredTask, Decisions, Contract!Exists, Contract!Expirable,
            Contract!NewTask, Contract!DispatchedTask, Contract!DecidedTask,
            Contract!ExpiredTask, Contract!Decisions
    <2>3. Contract!OdooStep
        BY <2>1, <2>2 DEF Contract!OdooStep, AbsPc, Clicked
    <2> QED BY <2>3 DEF Contract!Next
<1>7. CASE UNCHANGED vars
    BY <1>7 DEF vars, Contract!vars, Over, Active, Closed
<1> QED BY <1>1, <1>2, <1>3, <1>4, <1>5, <1>6, <1>7 DEF Deliver

\* A run of the graph, its clicks and its failures do to the task what Odoo may
\* expect of an agent's run (register_agent_run, set_approval).
THEOREM ContractHonoured == Spec => HonoursContract
<1>1. Init => Contract!Init
    <2> SUFFICES ASSUME Init PROVE Contract!Init
        OBVIOUS
    <2>1. PICK one \in Handlers :
            exec = [h \in Handlers |-> IF h = one THEN [Idle EXCEPT !.pc = "analyze"]
                                                  ELSE Idle]
        BY DEF Init
    <2>2. exec[one].pc = "analyze"
        BY <2>1 DEF Idle
    <2>3. AbsPc = "analyzing"
        BY <2>2 DEF Init, AbsPc, Over, Active
    <2>4. Clicked = {} /\ task = NoTask
        BY DEF Init, Clicked
    <2> QED BY <2>3, <2>4 DEF Contract!Init, NoTask, Contract!NoTask, AbsPc, Clicked
<1>2. IInv /\ [Next]_vars => [Contract!Next]_(Contract!vars)
    BY NotifySteps, ResumedSteps, OtherSteps DEF Next, Step
<1> QED BY <1>1, <1>2, Invariance, PTL DEF Spec, HonoursContract, Contract!Spec

\* A decision of a task that exists is never made up, nor taken back: it changes to
\* what a manager clicked on a card of the run, or to a button of Odoo's form while
\* the task waits for one; whatever is crashed, redelivered or done twice.
DecidedByManagers ==
    Exists(task) /\ task'.decision # task.decision =>
        /\ task'.decision \in Decisions
        /\ task'.decision \in Clicked \/ task.state = "pending_approval"

THEOREM DecisionsAreManagers == Spec => [][DecidedByManagers]_task
<1>1. TypeOK /\ [Contract!Next]_(Contract!vars) => [DecidedByManagers]_task
    <2> SUFFICES ASSUME TypeOK, Contract!Next, Exists(task)
                 PROVE  DecidedByManagers
        BY DEF Contract!vars, DecidedByManagers
    <2> USE DEF DecidedByManagers
    <2>1. task \in Task /\ Clicked \subseteq Decisions
        BY DEF TypeOK, Clicked
    <2>2. CASE Contract!Notify \/ Contract!Die \/ \E d \in Decisions : Contract!Click(d)
        BY <2>1, <2>2 DEF Contract!Notify, Contract!Die, Contract!Click,
                          Contract!RegisteredTask, Task
    <2>3. ASSUME NEW d \in Decisions, Contract!Decide(d) PROVE DecidedByManagers
        BY <2>1, <2>3 DEF Contract!Decide, Contract!DecidedTask, Task, Clicked
    <2>4. CASE Contract!OdooStep
        BY <2>1, <2>4 DEF Contract!OdooStep, Contract!Exists, Exists, Task, Contract!Decisions,
                          Decisions, Contract!DecidedTask, Contract!Expirable,
                          Contract!ExpiredTask, Contract!DispatchedTask
    <2> QED BY <2>2, <2>3, <2>4 DEF Contract!Next, Contract!Decisions, Decisions
<1> QED BY <1>1, TypeCorrect, ContractHonoured, PTL DEF HonoursContract, Contract!Spec
=============================================================================

------------------------------ MODULE AgentRun ------------------------------
(***************************************************************************)
(* What Odoo may expect of one run of the agent: the contract that the      *)
(* agent's side of Gatekeeper (RunNotifies, RunDies, RunDecides) assumes    *)
(* and ApprovalGraph implements.                                           *)
(*                                                                         *)
(* A run may put its task in pending_approval, more than once, and may at   *)
(* any time do no more; it decides the task only as a manager clicked, and   *)
(* never once it is over.                                                   *)
(***************************************************************************)
EXTENDS AiOpsTask

VARIABLES pc,        \* analyzing, waiting (its card may be up) or over
          task,      \* the run's row of ai.ops.task
          clicked    \* the decisions managers clicked on its cards

vars == <<pc, task, clicked>>

\* The POST that starts a run precedes the commit of its task.
Init ==
    /\ pc = "analyzing"
    /\ task = NoTask
    /\ clicked = {}

Notify ==
    /\ pc \in {"analyzing", "waiting"}
    /\ pc' = "waiting"
    /\ \/ Exists(task) /\ task' = RegisteredTask(task)
       \/ UNCHANGED task
    /\ UNCHANGED clicked

Die ==
    /\ pc \in {"analyzing", "waiting"}
    /\ pc' = "over"
    /\ UNCHANGED <<task, clicked>>

Click(d) ==
    /\ pc # "analyzing"
    /\ clicked' = clicked \cup {d}
    /\ UNCHANGED <<pc, task>>

Decide(d) ==
    /\ pc = "waiting" /\ d \in clicked
    /\ pc' \in {"waiting", "over"}
    /\ \/ Exists(task) /\ task' = DecidedTask(task, d)
       \/ UNCHANGED task
    /\ UNCHANGED clicked

\* Odoo's own steps on the row: the commit that creates it (after a dispatch
\* that was answered or was not), the buttons of its form (Re-dispatch among them,
\* which starts another run), the cron.
OdooStep ==
    /\ \/ /\ ~Exists(task)
          /\ \E o \in Orders, level \in {"medium", "high"},
                linked, answered \in BOOLEAN :
                task' = DispatchedTask(NewTask(o, level, "queued", linked),
                                       answered)
       \/ /\ task.state = "pending_approval"
          /\ \E d \in Decisions : task' = DecidedTask(task, d)
       \/ /\ Expirable(task)
          /\ task' = ExpiredTask(task)
       \/ /\ task.state \in {"queued", "failed"}
          /\ task' = DispatchedTask(task, TRUE)
    /\ UNCHANGED <<pc, clicked>>

Next == \/ Notify \/ Die \/ OdooStep
        \/ \E d \in Decisions : Click(d) \/ Decide(d)

Spec == Init /\ [][Next]_vars
=============================================================================

----------------------------- MODULE WriteGate ------------------------------
(***************************************************************************)
(* What the reconciliation workflow and Odoo's approval gate promise about  *)
(* stock together: a run writes only what a manager approved of that run,   *)
(* and only while the decision Odoo holds for its task is an approval.      *)
(* The module docstring of reconciliation_graph.py and the docstring of     *)
(* _require_approved_task (ai_ops_inventory.py) state it; Reconciliation    *)
(* implements it.  It does not promise that an approval is used only once.  *)
(***************************************************************************)
EXTENDS Naturals

CONSTANTS Runs, Decisions

VARIABLES decision,    \* the decision Odoo holds for the task
          answers,     \* what managers answered to each run
          writes       \* stock writes of each run

vars == <<decision, answers, writes>>

Init ==
    /\ decision = "undecided"
    /\ answers = [r \in Runs |-> {}]
    /\ writes = [r \in Runs |-> 0]

Answer(r, d) ==
    /\ answers' = [answers EXCEPT ![r] = @ \cup {d}]
    /\ UNCHANGED <<decision, writes>>

\* By a run that was answered, or in Odoo's form.
Decide(d) ==
    /\ decision' = d
    /\ UNCHANGED <<answers, writes>>

Write(r) ==
    /\ decision = "approve"
    /\ "approve" \in answers[r]
    /\ writes' = [writes EXCEPT ![r] = @ + 1]
    /\ UNCHANGED <<decision, answers>>

Next ==
    \/ \E r \in Runs, d \in Decisions : Answer(r, d)
    \/ \E d \in Decisions : Decide(d)
    \/ \E r \in Runs : Write(r)

Spec == Init /\ [][Next]_vars
=============================================================================

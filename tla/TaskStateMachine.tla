-------------------------- MODULE TaskStateMachine --------------------------
(***************************************************************************)
(* The states and events of models/task.py and the transition table of     *)
(* core/task_state_machine.py.                                             *)
(***************************************************************************)

\* models/task.py TERMINAL_STATES.
Terminal == {"completed", "failed", "cancelled"}

\* models/task.py TaskState.
Live == {"received", "understanding", "validating", "awaiting_confirmation",
         "executing", "delivering", "waiting_network"}

TaskState == Live \cup Terminal

\* A row that is not there yet, or that the retention purge has deleted.
NoRow == {"absent", "purged"}

\* models/task.py TaskEvent.
TaskEvent == {"understand", "validate", "require_confirmation", "confirm",
              "execute", "deliver", "complete", "wait_network", "resume",
              "fail", "cancel"}

\* TaskStateMachine.TRANSITIONS: event e takes a task from state s to state u.
Edge(s, e, u) ==
    \/ s = "received"              /\ e = "understand"           /\ u = "understanding"
    \/ s = "understanding"         /\ e = "validate"             /\ u = "validating"
    \/ s = "validating"            /\ e = "require_confirmation" /\ u = "awaiting_confirmation"
    \/ s = "validating"            /\ e = "execute"              /\ u = "executing"
    \/ s = "validating"            /\ e = "wait_network"         /\ u = "waiting_network"
    \/ s = "awaiting_confirmation" /\ e = "confirm"              /\ u = "validating"
    \/ s = "executing"             /\ e = "require_confirmation" /\ u = "awaiting_confirmation"
    \/ s = "executing"             /\ e = "deliver"              /\ u = "delivering"
    \/ s = "executing"             /\ e = "wait_network"         /\ u = "waiting_network"
    \/ s = "delivering"            /\ e = "complete"             /\ u = "completed"
    \/ s = "waiting_network"       /\ e = "resume"               /\ u = "validating"
    \/ s \in Live                  /\ e = "cancel"               /\ u = "cancelled"
    \/ s \in Live                  /\ e = "fail"                 /\ u = "failed"

\* TaskStateMachine.transition raises InvalidTransitionError unless this holds.
Legal(s, e) == \E u \in TaskState : Edge(s, e, u)

\* A row that is there, or not there yet, or deleted.
RowState == TaskState \cup NoRow
==============================================================================

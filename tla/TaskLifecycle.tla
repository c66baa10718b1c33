---------------------------- MODULE TaskLifecycle ----------------------------
(***************************************************************************)
(* What the platform promises about its tasks: each row is created once,   *)
(* moves along the transition table one event at a time, and is deleted    *)
(* only after it has ended.  It knows nothing of coroutines, confirmations,*)
(* tools or crashes: AgentCore is shown to implement it.                   *)
(***************************************************************************)
EXTENDS TaskStateMachine

CONSTANT Task           \* task identifiers; a UUID is never reused

VARIABLE state          \* the persisted state of every task


Init == state = [t \in Task |-> "absent"]

\* TaskAPI.create inserts the row in its initial state.
Create(t) ==
    /\ state[t] = "absent"
    /\ state' = [state EXCEPT ![t] = "received"]

\* TaskAPI.transition: one event, one persisted change.
Transition(t, e) ==
    \E u \in TaskState :
        /\ Edge(state[t], e, u)
        /\ state' = [state EXCEPT ![t] = u]

\* SessionManager.purge_expired deletes terminal rows, and only those.
Purge(expired) ==
    /\ \A t \in expired : state[t] \in Terminal
    /\ state' = [t \in Task |-> IF t \in expired THEN "purged" ELSE state[t]]

Next ==
    \/ \E t \in Task : Create(t)
    \/ \E t \in Task, e \in TaskEvent : Transition(t, e)
    \/ \E expired \in SUBSET Task : Purge(expired)

Spec == Init /\ [][Next]_state
==============================================================================
